---------------------------- MODULE Spec2Model ----------------------------
(***************************************************************************)
(* State-machine model of the spreadsheet Table (src/src/sheet.js, the     *)
(* TypeScript half of the file) together with the components it drives:    *)
(* AxisIndex (src/src/axis-index.js), CellStore, DepGraph                  *)
(* (src/unnamed/part_002, the file imported as ./dep-graph), RangeWatchers *)
(* (src/src/range-watchers.ts), the formula parser/printer                 *)
(* (src/src/parser.ts) and the splice transformation                       *)
(* (src/src/transform.js).                                                 *)
(* A second state machine, CoreSpec, models the Sheet of src/src/core      *)
(* (sheet.ts, row-index.ts, col-index.ts, formula-graph.ts) with the event *)
(* loop that runs its deferred recalculation.                              *)
(*                                                                         *)
(* Encoding conventions                                                    *)
(*  - an axis identifier `id<n>` is the natural number n;                  *)
(*  - an address / address key "row:col" is the pair <<row, col>>;         *)
(*  - a JavaScript Map whose iteration order is observable (CellStore) is  *)
(*    a sequence of [key, cell] entries in insertion order; a Map that is  *)
(*    only read by key is a function whose DOMAIN is its key set;          *)
(*  - a JavaScript Set is a duplicate-free sequence in insertion order;    *)
(*  - a Scalar is a record [t, v]: t = "num" for a number v, or the name   *)
(*    of the error sentinel; Undefined stands for a missing `cached`;      *)
(*  - formula text is a sequence of one-character strings.                 *)
(***************************************************************************)
EXTENDS Integers, Sequences, FiniteSets, TLC

\* ------------------------------------------------------------------ bounds
InitRows == 2
InitCols == 2
MaxIns == 1
MaxOps == 3
MaxVal == 10
MaxProducers == 2
MaxCoreOps == 4
CoreMaxIns == 2
CoreMaxVal == 2

\* ------------------------------------------------------- generic helpers
Min(a, b) == IF a < b THEN a ELSE b
Max(a, b) == IF a > b THEN a ELSE b

Range(s) == {s[i] : i \in 1..Len(s)}

\* Array.prototype.indexOf, 1-based; 0 when absent
IndexOf(s, x) ==
  IF \E i \in 1..Len(s) : s[i] = x
  THEN CHOOSE i \in 1..Len(s) : s[i] = x /\ \A j \in 1..(i - 1) : s[j] # x
  ELSE 0

\* Set.prototype.add / delete on an insertion-ordered set
SetAdd(s, x) == IF x \in Range(s) THEN s ELSE Append(s, x)
SetDelete(s, x) == SelectSeq(s, LAMBDA y : y # x)

RECURSIVE SetAddAll(_, _)
SetAddAll(s, xs) ==
  IF xs = <<>> THEN s ELSE SetAddAll(SetAdd(s, Head(xs)), Tail(xs))

\* Map with a dynamic key set, read by key only
MapPut(m, k, v) == [x \in DOMAIN m \cup {k} |-> IF x = k THEN v ELSE m[x]]
MapRemove(m, k) == [x \in DOMAIN m \ {k} |-> m[x]]
EmptyMap == [x \in {} |-> <<>>]

\* ------------------------------------------------------------- scalars
Num(n) == [t |-> "num", v |-> n]
RefError == [t |-> "#REF!", v |-> 0]
CycleError == [t |-> "#CYCLE!", v |-> 0]
Undefined == [t |-> "undefined", v |-> 0]
IsNumber(s) == s.t = "num"

ValueCell(s) == [kind |-> "value", value |-> s]
FormulaCell(ast, cached) == [kind |-> "formula", ast |-> ast, cached |-> cached]

\* --------------------------------------------------------------- AxisIndex
\* new AxisIndex(initialCount): one segment holding id0 .. id(initialCount-1)
NewAxisIndex(initialCount) ==
  [segments |-> << [startPos |-> 1, ids |-> [i \in 1..initialCount |-> i - 1]] >>,
   nextId |-> initialCount]

SegEnd(seg) == seg.startPos + Len(seg.ids) - 1

\* index of the first segment that covers pos, 0 when none does
SegOfPos(ax, pos) ==
  LET hit == {i \in 1..Len(ax.segments) :
                pos >= ax.segments[i].startPos /\ pos <= SegEnd(ax.segments[i])}
  IN IF hit = {} THEN 0 ELSE CHOOSE i \in hit : \A j \in hit : i <= j

\* index of the first segment that holds id, 0 when none does
SegOfId(ax, id) ==
  LET hit == {i \in 1..Len(ax.segments) : id \in Range(ax.segments[i].ids)}
  IN IF hit = {} THEN 0 ELSE CHOOSE i \in hit : \A j \in hit : i <= j

\* posToId(pos) !== undefined
HasPos(ax, pos) == SegOfPos(ax, pos) # 0
posToId(ax, pos) ==
  LET seg == ax.segments[SegOfPos(ax, pos)] IN seg.ids[pos - seg.startPos + 1]

\* idToPos(id) !== undefined
HasId(ax, id) == SegOfId(ax, id) # 0
idToPos(ax, id) ==
  LET seg == ax.segments[SegOfId(ax, id)] IN seg.startPos + IndexOf(seg.ids, id) - 1

\* ids.splice(offset, 0, ...newIds), offset 0-based
SpliceIn(ids, offset, newIds) ==
  SubSeq(ids, 1, offset) \o newIds \o SubSeq(ids, offset + 1, Len(ids))

\* ids.splice(offset, count), offset 0-based
SpliceOut(ids, offset, count) ==
  SubSeq(ids, 1, offset) \o SubSeq(ids, offset + count + 1, Len(ids))

ShiftAfter(segs, i, d) ==
  [j \in 1..Len(segs) |->
     IF j > i THEN [segs[j] EXCEPT !.startPos = @ + d] ELSE segs[j]]

\* a counter that starts again at id0 for every insert
generateIdRestarted(ax, i) == i

\* generateId as the i-th call (from 0) of one insert makes it: id<nextId++>
generateId(ax, i) == ax.nextId + i

AxisInsert(ax, atPos, count) ==
  LET newIds == [i \in 1..count |-> generateId(ax, i - 1)]
      segs == ax.segments
      hit == {i \in 1..Len(segs) :
                atPos >= segs[i].startPos /\ atPos <= SegEnd(segs[i]) + 1}
  IN IF hit # {}
     THEN LET i == CHOOSE i \in hit : \A j \in hit : i <= j
              seg == segs[i]
              grown == [seg EXCEPT !.ids = SpliceIn(seg.ids, atPos - seg.startPos, newIds)]
          IN [segments |-> ShiftAfter([segs EXCEPT ![i] = grown], i, count),
              nextId |-> ax.nextId + count]
     ELSE LET nextPos == IF Len(segs) > 0 THEN SegEnd(segs[Len(segs)]) + 1 ELSE 1
          IN [segments |-> Append(segs, [startPos |-> nextPos, ids |-> newIds]),
              nextId |-> ax.nextId + count]

\* the for-loop of AxisIndex.remove from index i on (i is 1-based here)
RECURSIVE RemoveLoop(_, _, _, _)
RemoveLoop(segs, i, from, to) ==
  IF i > Len(segs) THEN segs
  ELSE LET seg == segs[i]
           count == to - from + 1
       IN IF to < seg.startPos
          THEN RemoveLoop([segs EXCEPT ![i].startPos = @ - count], i + 1, from, to)
          ELSE IF from > SegEnd(seg)
          THEN RemoveLoop(segs, i + 1, from, to)
          ELSE LET delStart == Max(from, seg.startPos)
                   delEnd == Min(to, SegEnd(seg))
                   delOffset == delStart - seg.startPos
                   delCount == delEnd - delStart + 1
                   cut == [seg EXCEPT !.ids = SpliceOut(seg.ids, delOffset, delCount)]
                   shifted == ShiftAfter([segs EXCEPT ![i] = cut], i, 0 - count)
               IN IF Len(cut.ids) = 0
                  THEN RemoveLoop(SubSeq(shifted, 1, i - 1) \o
                                    SubSeq(shifted, i + 1, Len(shifted)), i, from, to)
                  ELSE RemoveLoop(shifted, i + 1, from, to)

AxisRemove(ax, from, to) ==
  [ax EXCEPT !.segments = RemoveLoop(ax.segments, 1, from, to)]

maxPos(ax) ==
  IF Len(ax.segments) = 0 THEN 0 ELSE SegEnd(ax.segments[Len(ax.segments)])

\* the identifiers currently held by some segment
LiveIds(ax) == UNION {Range(ax.segments[i].ids) : i \in 1..Len(ax.segments)}

\* ------------------------------------------------------------ parser.ts
Alphabet == <<"A", "B", "C", "D", "E", "F", "G", "H", "I", "J", "K", "L", "M", "N", "O", "P", "Q", "R", "S", "T", "U", "V", "W", "X", "Y", "Z">>
Digits == <<"0", "1", "2", "3", "4", "5", "6", "7", "8", "9">>
IsLetter(ch) == ch \in Range(Alphabet)
IsDigit(ch) == ch \in Range(Digits)

\* String(n) for an integer n
RECURSIVE NatToString(_)
NatToString(n) ==
  IF n < 10 THEN <<Digits[n + 1]>>
  ELSE Append(NatToString(n \div 10), Digits[(n % 10) + 1])

IntToString(n) == IF n < 0 THEN <<"-">> \o NatToString(0 - n) ELSE NatToString(n)

\* parseInt(digits, 10) for a non-empty run of digits
RECURSIVE parseInt(_)
parseInt(ds) ==
  IF ds = <<>> THEN 0
  ELSE parseInt(SubSeq(ds, 1, Len(ds) - 1)) * 10 + (IndexOf(Digits, ds[Len(ds)]) - 1)

RECURSIVE colToLetter(_)
colToLetter(col) ==
  IF col > 0
  THEN Append(colToLetter((col - 1) \div 26), Alphabet[((col - 1) % 26) + 1])
  ELSE <<>>

RECURSIVE letterToCol(_)
letterToCol(letter) ==
  IF letter = <<>> THEN 0
  ELSE letterToCol(SubSeq(letter, 1, Len(letter) - 1)) * 26
         + IndexOf(Alphabet, letter[Len(letter)])

\* String.prototype.trim (only the space character occurs in the modelled texts)
RECURSIVE Trim(_)
Trim(s) ==
  IF s # <<>> /\ Head(s) = " " THEN Trim(Tail(s))
  ELSE IF s # <<>> /\ s[Len(s)] = " " THEN Trim(SubSeq(s, 1, Len(s) - 1))
  ELSE s

\* length of the longest prefix of s made of letters A-Z / of digits
RECURSIVE LetterRun(_)
LetterRun(s) == IF s # <<>> /\ IsLetter(Head(s)) THEN 1 + LetterRun(Tail(s)) ELSE 0

RECURSIVE DigitRun(_)
DigitRun(s) == IF s # <<>> /\ IsDigit(Head(s)) THEN 1 + DigitRun(Tail(s)) ELSE 0

\* ref.match(/^(\$?)([A-Z]+)(\$?)(\d+)$/): the four groups, or matched = FALSE
HasDollar(s) == s # <<>> /\ s[1] = "$"
StripDollar(s) == IF HasDollar(s) THEN Tail(s) ELSE s

\* the groups of the pattern once the column letters are cut off: r2 is the
\* text after them
MatchReferenceRow(colAbs, colLetter, r2) ==
  [matched |-> /\ Len(colLetter) >= 1
               /\ StripDollar(r2) # <<>>
               /\ DigitRun(StripDollar(r2)) = Len(StripDollar(r2)),
   colAbs |-> colAbs, colLetter |-> colLetter,
   rowAbs |-> HasDollar(r2), rowDigits |-> StripDollar(r2)]

\* r1 is the text after the optional leading "$"
MatchReferenceCol(colAbs, r1) ==
  MatchReferenceRow(colAbs, SubSeq(r1, 1, LetterRun(r1)),
                    SubSeq(r1, LetterRun(r1) + 1, Len(r1)))

MatchReference(ref) == MatchReferenceCol(HasDollar(ref), StripDollar(ref))

\* parseReference(...) !== null
ReferenceParses(ref, basePos, rowAxis, colAxis) ==
  /\ MatchReference(ref).matched
  /\ HasPos(rowAxis, basePos.r)
  /\ HasPos(colAxis, basePos.c)

\* the anchor built from the groups m of a matched reference
AnchorOfMatch(m, basePos, rowAxis, colAxis) ==
  [base |-> <<posToId(rowAxis, basePos.r), posToId(colAxis, basePos.c)>>,
   rowMode |-> IF m.rowAbs THEN "abs" ELSE "rel",
   colMode |-> IF m.colAbs THEN "abs" ELSE "rel",
   dRow |-> parseInt(m.rowDigits) - basePos.r,
   dCol |-> letterToCol(m.colLetter) - basePos.c]

parseReference(ref, basePos, rowAxis, colAxis) ==
  AnchorOfMatch(MatchReference(ref), basePos, rowAxis, colAxis)

\* expr.match(/^SUM\(([^:]+):([^)]+)\)$/i): the two groups, or matched = FALSE
\* the groups of the SUM pattern: rest is the text after "SUM(", colon the
\* index of its first ":" (0 if none)
MatchSumGroups(head, rest, colon) ==
  [matched |-> /\ head /\ colon >= 2
               /\ rest[Len(rest)] = ")"
               /\ SubSeq(rest, colon + 1, Len(rest) - 1) # <<>>
               /\ ")" \notin Range(SubSeq(rest, colon + 1, Len(rest) - 1)),
   start |-> SubSeq(rest, 1, colon - 1),
   end |-> SubSeq(rest, colon + 1, Len(rest) - 1)]

SumHead(expr) ==
  /\ Len(expr) >= 4
  /\ expr[1] \in {"S", "s"} /\ expr[2] \in {"U", "u"}
  /\ expr[3] \in {"M", "m"} /\ expr[4] = "("

MatchSumRest(head, rest) == MatchSumGroups(head, rest, IndexOf(rest, ":"))

MatchSum(expr) ==
  MatchSumRest(SumHead(expr), IF SumHead(expr) THEN SubSeq(expr, 5, Len(expr)) ELSE <<>>)

RefFormula(anchor) == [t |-> "Ref", ref |-> anchor]
SumFormula(start, end) == [t |-> "Sum", range |-> [start |-> start, end |-> end]]
BadFormula == [t |-> "#REF!"]

\* the Sum branch of parseFormula: a and b are the trimmed groups
ParseSum(a, b, basePos, rowAxis, colAxis) ==
  IF /\ ReferenceParses(a, basePos, rowAxis, colAxis)
     /\ ReferenceParses(b, basePos, rowAxis, colAxis)
  THEN SumFormula(parseReference(a, basePos, rowAxis, colAxis),
                  parseReference(b, basePos, rowAxis, colAxis))
  ELSE BadFormula

\* the branches of parseFormula on expr, the trimmed text after "="
ParseMatched(expr, sm, basePos, rowAxis, colAxis) ==
  IF sm.matched
  THEN ParseSum(Trim(sm.start), Trim(sm.end), basePos, rowAxis, colAxis)
  ELSE IF ReferenceParses(expr, basePos, rowAxis, colAxis)
  THEN RefFormula(parseReference(expr, basePos, rowAxis, colAxis))
  ELSE BadFormula

ParseExpr(expr, basePos, rowAxis, colAxis) ==
  ParseMatched(expr, MatchSum(expr), basePos, rowAxis, colAxis)

\* s is the trimmed source
ParseTrimmed(s, basePos, rowAxis, colAxis) ==
  IF s = <<>> \/ Head(s) # "=" THEN BadFormula
  ELSE ParseExpr(Trim(Tail(s)), basePos, rowAxis, colAxis)

parseFormula(src, basePos, rowAxis, colAxis) ==
  ParseTrimmed(Trim(src), basePos, rowAxis, colAxis)

\* anchorToAddress(...) !== '#REF!'
AnchorResolves(anchor, rowAxis, colAxis) ==
  /\ HasId(rowAxis, anchor.base[1])
  /\ HasId(colAxis, anchor.base[2])
  /\ HasPos(rowAxis, idToPos(rowAxis, anchor.base[1]) + anchor.dRow)
  /\ HasPos(colAxis, idToPos(colAxis, anchor.base[2]) + anchor.dCol)

anchorToAddress(anchor, rowAxis, colAxis) ==
  << posToId(rowAxis, idToPos(rowAxis, anchor.base[1]) + anchor.dRow),
     posToId(colAxis, idToPos(colAxis, anchor.base[2]) + anchor.dCol) >>

RefText == <<"#", "R", "E", "F", "!">>

formatAnchor(anchor, rowAxis, colAxis) ==
  IF ~AnchorResolves(anchor, rowAxis, colAxis) THEN RefText
  ELSE LET addr == anchorToAddress(anchor, rowAxis, colAxis)
           rowPos == idToPos(rowAxis, addr[1])
           colPos == idToPos(colAxis, addr[2])
       IN (IF anchor.colMode = "abs" THEN <<"$">> ELSE <<>>) \o colToLetter(colPos)
          \o (IF anchor.rowMode = "abs" THEN <<"$">> ELSE <<>>) \o IntToString(rowPos)

formatFormula(formula, rowAxis, colAxis) ==
  IF formula.t = "Ref"
  THEN <<"=">> \o formatAnchor(formula.ref, rowAxis, colAxis)
  ELSE <<"=", "S", "U", "M", "(">> \o formatAnchor(formula.range.start, rowAxis, colAxis)
       \o <<":">> \o formatAnchor(formula.range.end, rowAxis, colAxis) \o <<")">>

\* ------------------------------------------------------------- DepGraph
\* graph record: outgoing, incoming : key -> insertion-ordered set of keys
NewDepGraph == [outgoing |-> EmptyMap, incoming |-> EmptyMap]

MapGetOr(m, k) == IF k \in DOMAIN m THEN m[k] ELSE <<>>

\* variant: the edge is recorded in the outgoing map only
addEdgeOutgoingOnly(g, from, to) ==
  [outgoing |-> MapPut(g.outgoing, from, SetAdd(MapGetOr(g.outgoing, from), to)),
   incoming |-> g.incoming]

addEdge(g, from, to) ==
  [outgoing |-> MapPut(g.outgoing, from, SetAdd(MapGetOr(g.outgoing, from), to)),
   incoming |-> MapPut(g.incoming, to, SetAdd(MapGetOr(g.incoming, to), from))]

RECURSIVE AddEdgesInto(_, _, _)
AddEdgesInto(g, froms, to) ==
  IF froms = <<>> THEN g ELSE AddEdgesInto(addEdge(g, Head(froms), to), Tail(froms), to)

\* outSet.delete(key) for every listed owner; an emptied set is dropped from the map
RECURSIVE DropFromSets(_, _, _)
DropFromSets(m, owners, key) ==
  IF owners = <<>> THEN m
  ELSE LET o == Head(owners)
           left == IF o \in DOMAIN m THEN SetDelete(m[o], key) ELSE <<>>
           m2 == IF o \notin DOMAIN m THEN m
                 ELSE IF left = <<>> THEN MapRemove(m, o)
                 ELSE MapPut(m, o, left)
       IN DropFromSets(m2, Tail(owners), key)

\* variant: the new edges are installed, the old ones into `of` are kept
replaceAllInboundKeepOld(g, of, newFrom) == AddEdgesInto(g, newFrom, of)

replaceAllInbound(g, of, newFrom) ==
  LET oldIncoming == MapGetOr(g.incoming, of)
      cleared == [outgoing |-> DropFromSets(g.outgoing, oldIncoming, of),
                  incoming |-> MapPut(g.incoming, of, <<>>)]
  IN AddEdgesInto(cleared, newFrom, of)

\* variant: only the edges leaving `of` are retracted
removeAllOutgoing(g, of) ==
  LET outSet == MapGetOr(g.outgoing, of)
  IN [outgoing |-> MapRemove(g.outgoing, of),
      incoming |-> DropFromSets(g.incoming, outSet, of)]

removeAll(g, of) ==
  LET outSet == MapGetOr(g.outgoing, of)
      inc1 == DropFromSets(g.incoming, outSet, of)
      out1 == MapRemove(g.outgoing, of)
      inSet == MapGetOr(inc1, of)
      out2 == DropFromSets(out1, inSet, of)
      inc2 == MapRemove(inc1, of)
  IN [outgoing |-> out2, incoming |-> inc2]

\* breadth-first closure; the result is the Set `affected` in insertion order
RECURSIVE AffectedLoop(_, _, _)
AffectedLoop(g, queue, affected) ==
  IF queue = <<>> THEN affected
  ELSE LET key == Head(queue)
       IN IF key \in Range(affected) THEN AffectedLoop(g, Tail(queue), affected)
          ELSE LET aff2 == Append(affected, key)
                   more == SelectSeq(MapGetOr(g.outgoing, key),
                                     LAMBDA d : d \notin Range(aff2))
               IN AffectedLoop(g, Tail(queue) \o more, aff2)

affectedFrom(g, changed) == AffectedLoop(g, changed, <<>>)

RECURSIVE CycleLoop(_, _, _, _)
CycleLoop(g, queue, visited, fromKey) ==
  IF queue = <<>> THEN FALSE
  ELSE LET current == Head(queue)
       IN IF current = fromKey THEN TRUE
          ELSE IF current \in visited THEN CycleLoop(g, Tail(queue), visited, fromKey)
          ELSE LET vis2 == visited \cup {current}
                   more == SelectSeq(MapGetOr(g.outgoing, current),
                                     LAMBDA d : d \notin vis2)
               IN CycleLoop(g, Tail(queue) \o more, vis2, fromKey)

\* variant: only `to` itself and its direct consumers are looked at
wouldCreateCycleDirect(g, from, to) == to = from \/ from \in Range(MapGetOr(g.outgoing, to))

wouldCreateCycle(g, from, to) == CycleLoop(g, <<to>>, {}, from)

getDependencies(g, of) == MapGetOr(g.incoming, of)
getDependents(g, of) == MapGetOr(g.outgoing, of)

\* every edge <<from, to>> recorded in the outgoing map
Edges(g) == UNION {{<<a, b>> : b \in Range(g.outgoing[a])} : a \in DOMAIN g.outgoing}

\* --------------------------------------------------------- RangeWatchers
NewRangeWatchers == [watchers |-> EmptyMap, formulaRanges |-> EmptyMap]

addWatch(rw, range, formulaAt) ==
  [rw EXCEPT !.formulaRanges =
     MapPut(rw.formulaRanges, formulaAt, Append(MapGetOr(rw.formulaRanges, formulaAt), range))]

removeWatches(rw, formulaAt) ==
  LET keep == {k \in DOMAIN rw.watchers : SetDelete(rw.watchers[k], formulaAt) # <<>>}
  IN [watchers |-> [k \in keep |-> SetDelete(rw.watchers[k], formulaAt)],
      formulaRanges |-> MapRemove(rw.formulaRanges, formulaAt)]

registerCell(rw, cellAddr, formulaAt) ==
  [rw EXCEPT !.watchers =
     MapPut(rw.watchers, cellAddr, SetAdd(MapGetOr(rw.watchers, cellAddr), formulaAt))]

RECURSIVE RegisterCells(_, _, _)
RegisterCells(rw, cellAddrs, formulaAt) ==
  IF cellAddrs = <<>> THEN rw
  ELSE RegisterCells(registerCell(rw, Head(cellAddrs), formulaAt), Tail(cellAddrs), formulaAt)


\* ----------------------------------------------------------- transform.js
RefMark == [t |-> "#REF!"]

\* applySpliceToPos(pos) === '#REF!'
SpliceKills(splice, pos) ==
  splice.del > 0 /\ pos >= splice.atPos /\ pos < splice.atPos + splice.del

\* variant: an insertion shifts only the positions strictly after atPos
applySpliceToPosAfter(splice, pos) ==
  IF splice.del > 0 /\ pos >= splice.atPos + splice.del
  THEN pos - splice.del + splice.ins
  ELSE IF ~(splice.del > 0) /\ splice.ins > 0 /\ pos > splice.atPos
  THEN pos + splice.ins
  ELSE pos

\* applySpliceToPos(pos) when it is a number
applySpliceToPos(splice, pos) ==
  IF splice.del > 0 /\ pos >= splice.atPos + splice.del
  THEN pos - splice.del + splice.ins
  ELSE IF ~(splice.del > 0) /\ splice.ins > 0 /\ pos >= splice.atPos
  THEN pos + splice.ins
  ELSE pos

\* variant: the target of an abs anchor is shifted like that of a rel anchor
transformAnchorShiftAbs(anchor, splice, rowAxis, colAxis) ==
  LET isRowSplice == splice.axis = "row"
      axis == IF isRowSplice THEN rowAxis ELSE colAxis
      baseId == IF isRowSplice THEN anchor.base[1] ELSE anchor.base[2]
  IN IF ~HasId(axis, baseId) THEN RefMark
     ELSE LET basePos == idToPos(axis, baseId)
              dOffset == IF isRowSplice THEN anchor.dRow ELSE anchor.dCol
              targetPos == basePos + dOffset
          IN IF SpliceKills(splice, basePos) \/ SpliceKills(splice, targetPos)
             THEN RefMark
             ELSE LET newDOffset == applySpliceToPos(splice, targetPos)
                                      - applySpliceToPos(splice, basePos)
                  IN IF isRowSplice
                     THEN [anchor EXCEPT !.dRow = newDOffset]
                     ELSE [anchor EXCEPT !.dCol = newDOffset]

\* transformAnchor from the pre-splice positions of the base and the target
TransformAt(anchor, splice, mode, basePos, targetPos) ==
  IF SpliceKills(splice, basePos) \/ (mode = "rel" /\ SpliceKills(splice, targetPos))
  THEN RefMark
  ELSE IF splice.axis = "row"
  THEN [anchor EXCEPT !.dRow = (IF mode = "rel" THEN applySpliceToPos(splice, targetPos)
                                ELSE targetPos) - applySpliceToPos(splice, basePos)]
  ELSE [anchor EXCEPT !.dCol = (IF mode = "rel" THEN applySpliceToPos(splice, targetPos)
                                ELSE targetPos) - applySpliceToPos(splice, basePos)]

\* transformAnchor along one axis: axis is the AxisIndex of the splice axis
TransformOn(anchor, splice, axis, baseId, mode, dOffset) ==
  IF ~HasId(axis, baseId) THEN RefMark
  ELSE TransformAt(anchor, splice, mode, idToPos(axis, baseId),
                   idToPos(axis, baseId) + dOffset)

transformAnchor(anchor, splice, rowAxis, colAxis) ==
  IF splice.axis = "row"
  THEN TransformOn(anchor, splice, rowAxis, anchor.base[1], anchor.rowMode, anchor.dRow)
  ELSE TransformOn(anchor, splice, colAxis, anchor.base[2], anchor.colMode, anchor.dCol)

\* the orientation check of transformRange on the two transformed anchors
\* (positions are still read from the axis as it is before the splice)
CheckOrientation(newStart, newEnd, axis, startBase, endBase, startOffset, endOffset) ==
  IF ~HasId(axis, startBase) \/ ~HasId(axis, endBase) THEN RefMark
  ELSE IF idToPos(axis, startBase) + startOffset > idToPos(axis, endBase) + endOffset
  THEN RefMark
  ELSE [start |-> newStart, end |-> newEnd]

TransformedRange(newStart, newEnd, splice, rowAxis, colAxis) ==
  IF newStart = RefMark \/ newEnd = RefMark THEN RefMark
  ELSE IF splice.axis = "row"
  THEN CheckOrientation(newStart, newEnd, rowAxis, newStart.base[1], newEnd.base[1],
                        newStart.dRow, newEnd.dRow)
  ELSE CheckOrientation(newStart, newEnd, colAxis, newStart.base[2], newEnd.base[2],
                        newStart.dCol, newEnd.dCol)

transformRange(range, splice, rowAxis, colAxis) ==
  TransformedRange(transformAnchor(range.start, splice, rowAxis, colAxis),
                   transformAnchor(range.end, splice, rowAxis, colAxis),
                   splice, rowAxis, colAxis)

\* -------------------------------------------------------------- CellStore
\* entries in insertion order; set() on a present key keeps its place
CellIndex(cells, key) ==
  IF \E i \in 1..Len(cells) : cells[i].key = key
  THEN CHOOSE i \in 1..Len(cells) : cells[i].key = key
  ELSE 0

CellHas(cells, key) == CellIndex(cells, key) # 0
CellGet(cells, key) == cells[CellIndex(cells, key)].cell
CellSet(cells, key, cell) ==
  IF CellHas(cells, key)
  THEN [cells EXCEPT ![CellIndex(cells, key)].cell = cell]
  ELSE Append(cells, [key |-> key, cell |-> cell])

\* ----------------------------------------------------- Sheet (sheet.js)
\* a sheet record: rows, cols (AxisIndex), cells (CellStore), deps (DepGraph),
\* ranges (RangeWatchers)
NewSheet(initialRows, initialCols) ==
  [rows |-> NewAxisIndex(initialRows), cols |-> NewAxisIndex(initialCols),
   cells |-> <<>>, deps |-> NewDepGraph, ranges |-> NewRangeWatchers]

\* posToAddr(pos) !== undefined
PosHasAddr(sh, pos) == HasPos(sh.rows, pos.r) /\ HasPos(sh.cols, pos.c)
posToAddr(sh, pos) == <<posToId(sh.rows, pos.r), posToId(sh.cols, pos.c)>>

\* addrToPos(addr) !== undefined
AddrHasPos(sh, addr) == HasId(sh.rows, addr[1]) /\ HasId(sh.cols, addr[2])
addrToPos(sh, addr) == [r |-> idToPos(sh.rows, addr[1]), c |-> idToPos(sh.cols, addr[2])]

\* ----------------------------------------------------- Table (sheet.js)
\* the positions of the rectangle r0..r1 x c0..c1, row by row
RectPositions(r0, r1, c0, c1) ==
  [k \in 1..((r1 - r0 + 1) * (c1 - c0 + 1)) |->
     [r |-> r0 + ((k - 1) \div (c1 - c0 + 1)), c |-> c0 + ((k - 1) % (c1 - c0 + 1))]]

\* the addresses of the positions that resolve, in order
AddrsOf(sh, live) == [k \in 1..Len(live) |-> posToAddr(sh, live[k])]

ExpandRect(sh, r0, r1, c0, c1) ==
  AddrsOf(sh, SelectSeq(RectPositions(r0, r1, c0, c1), LAMBDA p : PosHasAddr(sh, p)))

ExpandPos(sh, startPos, endPos) ==
  ExpandRect(sh, Min(startPos.r, endPos.r), Max(startPos.r, endPos.r),
                 Min(startPos.c, endPos.c), Max(startPos.c, endPos.c))

ExpandAddrs(sh, startAddr, endAddr) ==
  IF ~AddrHasPos(sh, startAddr) \/ ~AddrHasPos(sh, endAddr) THEN <<>>
  ELSE ExpandPos(sh, addrToPos(sh, startAddr), addrToPos(sh, endAddr))

expandRange(sh, range) ==
  IF ~AnchorResolves(range.start, sh.rows, sh.cols)
     \/ ~AnchorResolves(range.end, sh.rows, sh.cols)
  THEN <<>>
  ELSE ExpandAddrs(sh, anchorToAddress(range.start, sh.rows, sh.cols),
                       anchorToAddress(range.end, sh.rows, sh.cols))

collectDependencies(sh, formula) ==
  IF formula.t = "Ref"
  THEN IF AnchorResolves(formula.ref, sh.rows, sh.cols)
       THEN <<anchorToAddress(formula.ref, sh.rows, sh.cols)>>
       ELSE <<>>
  ELSE expandRange(sh, formula.range)

\* variant: only plain values count, a formula's cached number does not
NumericOrZeroPlain(cells, addr) ==
  IF ~CellHas(cells, addr) THEN 0
  ELSE LET cell == CellGet(cells, addr)
       IN IF cell.kind = "value" /\ IsNumber(cell.value) THEN cell.value.v ELSE 0

\* the scalar a cell contributes when read by a formula: its number, or 0
NumericOrZero(cells, addr) ==
  IF ~CellHas(cells, addr) THEN 0
  ELSE LET cell == CellGet(cells, addr)
       IN IF cell.kind = "value"
          THEN (IF IsNumber(cell.value) THEN cell.value.v ELSE 0)
          ELSE (IF IsNumber(cell.cached) THEN cell.cached.v ELSE 0)

RECURSIVE SumCells(_, _)
SumCells(cells, addrs) ==
  IF addrs = <<>> THEN 0
  ELSE NumericOrZero(cells, Head(addrs)) + SumCells(cells, Tail(addrs))

\* evalFormula: the sheet after the call (a Sum rewrites the inbound edges of
\* formulaAddr and registers its cells with the watchers) and the value returned
\* the Sum branch of evalFormula once the range is expanded
EvalSum(sh, formulaAddr, cells) ==
  [sheet |-> [sh EXCEPT !.deps = replaceAllInbound(sh.deps, formulaAddr, cells),
                        !.ranges = RegisterCells(sh.ranges, cells, formulaAddr)],
   value |-> Num(SumCells(sh.cells, cells))]

evalFormula(sh, formula, formulaAddr) ==
  IF formula.t = "Ref"
  THEN [sheet |-> sh,
        value |-> IF ~AnchorResolves(formula.ref, sh.rows, sh.cols) THEN RefError
                  ELSE Num(NumericOrZero(sh.cells,
                                         anchorToAddress(formula.ref, sh.rows, sh.cols)))]
  ELSE EvalSum(sh, formulaAddr, expandRange(sh, formula.range))

\* topologicalSort: depth-first visit; st = [sorted, visited, temp]
RECURSIVE Visit(_, _, _, _)
RECURSIVE VisitEach(_, _, _, _)
\* the end of visit(key): st2 is the state after the dependencies were visited
VisitDone(key, st2) ==
  [sorted |-> Append(st2.sorted, key),
   visited |-> st2.visited \cup {key},
   temp |-> st2.temp \ {key}]

Visit(g, nodes, key, st) ==
  IF key \in st.visited \/ key \in st.temp THEN st
  ELSE VisitDone(key,
         VisitEach(g, nodes,
                   SelectSeq(getDependencies(g, key), LAMBDA d : d \in Range(nodes)),
                   [st EXCEPT !.temp = @ \cup {key}]))

VisitEach(g, nodes, keys, st) ==
  IF keys = <<>> THEN st
  ELSE VisitEach(g, nodes, Tail(keys), Visit(g, nodes, Head(keys), st))

topologicalSort(g, nodes) ==
  VisitEach(g, nodes, nodes, [sorted |-> <<>>, visited |-> {}, temp |-> {}]).sorted

\* the evaluation loop of recalc over the sorted keys
RECURSIVE RecalcLoop(_, _)
\* cell.cached = value, on the sheet evalFormula left
StoreCached(ev, addr, cell) ==
  [ev.sheet EXCEPT !.cells = CellSet(ev.sheet.cells, addr, [cell EXCEPT !.cached = ev.value])]

RecalcLoop(sh, sorted) ==
  IF sorted = <<>> THEN sh
  ELSE IF ~CellHas(sh.cells, Head(sorted)) \/ CellGet(sh.cells, Head(sorted)).kind # "formula"
  THEN RecalcLoop(sh, Tail(sorted))
  ELSE RecalcLoop(StoreCached(evalFormula(sh, CellGet(sh.cells, Head(sorted)).ast, Head(sorted)),
                              Head(sorted), CellGet(sh.cells, Head(sorted))),
                  Tail(sorted))

recalc(sh, dirty) ==
  RecalcLoop(sh, topologicalSort(sh.deps, affectedFrom(sh.deps, dirty)))

\* cells.set(addr, cell)
PutCell(sh, addr, cell) == [sh EXCEPT !.cells = CellSet(sh.cells, addr, cell)]

\* deps.removeAll(addr); ranges.removeWatches(addr)
Retract(sh, addr) ==
  [sh EXCEPT !.deps = removeAll(sh.deps, addr),
             !.ranges = removeWatches(sh.ranges, addr)]

\* setValue once pos is resolved to addr
setValueAt(sh, addr, value) ==
  recalc(PutCell(IF CellHas(sh.cells, addr) /\ CellGet(sh.cells, addr).kind = "formula"
                 THEN Retract(sh, addr)
                 ELSE sh,
                 addr, ValueCell(Num(value))),
         <<addr>>)

setValue(sh, pos, value) ==
  IF ~PosHasAddr(sh, pos) THEN sh
  ELSE setValueAt(sh, posToAddr(sh, pos), value)

\* the first loop of setFormula: does some dependency close a cycle?
AnyWouldCreateCycle(g, deps, addr) ==
  \E i \in 1..Len(deps) : wouldCreateCycle(g, deps[i], addr)

\* setFormula after the old edges are retracted (sh1) and the dependencies of
\* the new formula collected
setFormulaInstall(sh1, addr, formula, deps) ==
  IF AnyWouldCreateCycle(sh1.deps, deps, addr)
  THEN PutCell(sh1, addr, FormulaCell(formula, CycleError))
  ELSE recalc([sh1 EXCEPT
                 !.deps = AddEdgesInto(sh1.deps, deps, addr),
                 !.ranges = IF formula.t = "Sum"
                            THEN addWatch(sh1.ranges, formula.range, addr)
                            ELSE sh1.ranges,
                 !.cells = CellSet(sh1.cells, addr, FormulaCell(formula, Undefined))],
              <<addr>>)

setFormulaRetracted(sh1, addr, formula) ==
  setFormulaInstall(sh1, addr, formula, collectDependencies(sh1, formula))

\* setFormula once pos is resolved to addr and the text parsed
setFormulaAt(sh, addr, formula) ==
  IF formula = BadFormula
  THEN PutCell(sh, addr, ValueCell(RefError))
  ELSE setFormulaRetracted(Retract(sh, addr), addr, formula)

setFormula(sh, pos, src) ==
  IF ~PosHasAddr(sh, pos) THEN sh
  ELSE setFormulaAt(sh, posToAddr(sh, pos), parseFormula(src, pos, sh.rows, sh.cols))

getValue(sh, pos) ==
  IF ~PosHasAddr(sh, pos) THEN Undefined
  ELSE LET addr == posToAddr(sh, pos)
       IN IF ~CellHas(sh.cells, addr) THEN Undefined
          ELSE LET cell == CellGet(sh.cells, addr)
               IN IF cell.kind = "value" THEN cell.value ELSE cell.cached

\* String(value) of a stored scalar
ScalarText(s) ==
  IF IsNumber(s) THEN IntToString(s.v)
  ELSE IF s = RefError THEN RefText
  ELSE <<"#", "C", "Y", "C", "L", "E", "!">>

getSource(sh, pos) ==
  IF ~PosHasAddr(sh, pos) THEN <<>>
  ELSE LET addr == posToAddr(sh, pos)
       IN IF ~CellHas(sh.cells, addr) THEN <<>>
          ELSE LET cell == CellGet(sh.cells, addr)
               IN IF cell.kind = "value" THEN ScalarText(cell.value)
                  ELSE formatFormula(cell.ast, sh.rows, sh.cols)

\* the transformation loop of applySplice over the cell entries from index i on;
\* acc = [cells, deps, dirty]; the axes are read, never written, in this loop
RECURSIVE TransformLoop(_, _, _, _)
\* the transformed reference of a formula cell, or RefMark
TransformCell(sh, splice, cell) ==
  IF cell.ast.t = "Ref"
  THEN transformAnchor(cell.ast.ref, splice, sh.rows, sh.cols)
  ELSE transformRange(cell.ast.range, splice, sh.rows, sh.cols)

\* one formula cell of the loop: new is its transformed reference
TransformStep(acc, key, cell, new) ==
  IF new = RefMark
  THEN [cells |-> CellSet(acc.cells, key, ValueCell(RefError)),
        deps |-> removeAll(acc.deps, key),
        dirty |-> SetAdd(acc.dirty, key)]
  ELSE [cells |-> CellSet(acc.cells, key,
                    FormulaCell(IF cell.ast.t = "Ref"
                                THEN [t |-> "Ref", ref |-> new]
                                ELSE [t |-> "Sum", range |-> new],
                                cell.cached)),
        deps |-> acc.deps,
        dirty |-> SetAdd(acc.dirty, key)]

TransformLoop(sh, splice, i, acc) ==
  IF i > Len(acc.cells) THEN acc
  ELSE IF acc.cells[i].cell.kind # "formula" THEN TransformLoop(sh, splice, i + 1, acc)
  ELSE TransformLoop(sh, splice, i + 1,
         TransformStep(acc, acc.cells[i].key, acc.cells[i].cell,
                       TransformCell(sh, splice, acc.cells[i].cell)))

\* the AxisIndex update of applySplice on the spliced axis
RemoveDeleted(ax, splice) ==
  IF splice.del > 0
  THEN AxisRemove(ax, splice.atPos, splice.atPos + splice.del - 1)
  ELSE ax

SpliceAxis(ax, splice) ==
  RemoveDeleted(IF splice.ins > 0 THEN AxisInsert(ax, splice.atPos, splice.ins) ELSE ax,
                splice)

\* the AxisIndex update on the sheet
SpliceSheet(sh, splice) ==
  IF splice.axis = "row"
  THEN [sh EXCEPT !.rows = SpliceAxis(sh.rows, splice)]
  ELSE [sh EXCEPT !.cols = SpliceAxis(sh.cols, splice)]

\* applySplice after the transformation loop has produced acc
SpliceTransformed(sh, splice, acc) ==
  recalc(SpliceSheet([sh EXCEPT !.cells = acc.cells, !.deps = acc.deps], splice), acc.dirty)

applySplice(sh, splice) ==
  SpliceTransformed(sh, splice,
                    TransformLoop(sh, splice, 1,
                                  [cells |-> sh.cells, deps |-> sh.deps, dirty |-> <<>>]))

insertRows(sh, atPos, count) ==
  applySplice(sh, [axis |-> "row", atPos |-> atPos, del |-> 0, ins |-> count])

deleteRows(sh, from, to) ==
  applySplice(sh, [axis |-> "row", atPos |-> from, del |-> to - from + 1, ins |-> 0])

insertCols(sh, atPos, count) ==
  applySplice(sh, [axis |-> "col", atPos |-> atPos, del |-> 0, ins |-> count])

deleteCols(sh, from, to) ==
  applySplice(sh, [axis |-> "col", atPos |-> from, del |-> to - from + 1, ins |-> 0])


\* -------------------------------------------------- core Sheet (src/src/core)
\* The core Sheet addresses cells by identifier: the RowId `row_<n>` and the
\* ColId `col_<n>` are the natural number n, an address is <<row, col>>, and
\* <<>> stands for an omitted address argument.  CellStore and FormulaGraph
\* are read by key only, so their Maps are functions; the addresses held in
\* recalcQueue are only iterated to reach their cells, so the queue is the
\* set of their keys.

\* new Sheet(id, name): empty indexes, store, graph, history and queue; timers
\* counts the setTimeout callbacks not yet run by the event loop
NewCoreSheet ==
  [rows |-> [segments |-> <<>>, nextId |-> 1],
   cols |-> [segments |-> <<>>, nextId |-> 1],
   cells |-> EmptyMap,
   deps |-> [dependencies |-> EmptyMap, dependents |-> EmptyMap],
   history |-> <<>>,
   historyIndex |-> 0 - 1,
   recalcQueue |-> {},
   timers |-> 0]

\* RowIndex.posToId / ColIndex.posToId; 0 when the call throws or finds no id
RowIndexPosToId(ix, pos) ==
  LET RECURSIVE Find(_, _)
      Find(i, currentPos) ==
        IF i > Len(ix.segments) THEN 0
        ELSE IF ix.segments[i].deleted THEN Find(i + 1, currentPos)
        ELSE IF currentPos + ix.segments[i].length > pos
             THEN IF (pos - currentPos + 1) \in 1..Len(ix.segments[i].rowIds)
                  THEN ix.segments[i].rowIds[pos - currentPos + 1]
                  ELSE 0
             ELSE Find(i + 1, currentPos + ix.segments[i].length)
  IN IF pos < 0 THEN 0 ELSE Find(1, 0)

\* RowIndex.insert / ColIndex.insert with generateIds, insertSegment and
\* updatePositionsAfter: the new segment goes in front of the live segment
\* that holds pos (or behind the last live one); later live segments shift
RowIndexInsert(ix, pos, count) ==
  LET RECURSIVE InsertIndex(_, _, _)
      InsertIndex(i, currentPos, found) ==
        IF i > Len(ix.segments) THEN found
        ELSE IF ix.segments[i].deleted THEN InsertIndex(i + 1, currentPos, found)
        ELSE IF currentPos + ix.segments[i].length > pos THEN i - 1
        ELSE InsertIndex(i + 1, currentPos + ix.segments[i].length, i)
      at == InsertIndex(1, 0, 0)
      newSegment == [startPos |-> pos, length |-> count,
                     rowIds |-> [k \in 1..count |-> ix.nextId + k - 1],
                     deleted |-> FALSE]
      spliced == SubSeq(ix.segments, 1, at) \o <<newSegment>>
                   \o SubSeq(ix.segments, at + 1, Len(ix.segments))
  IN IF count <= 0 THEN ix
     ELSE [segments |->
             [j \in 1..Len(spliced) |->
                IF j > at + 1 /\ ~spliced[j].deleted
                THEN [spliced[j] EXCEPT !.startPos = @ + count]
                ELSE spliced[j]],
           nextId |-> ix.nextId + count]

\* RowIndex.remove / ColIndex.remove with splitSegment.  The loop walks the
\* array it is changing: after a split it goes on with the `after` piece, and
\* currentPos has advanced by the length of the segment that was split.
\* Array.slice takes a negative end from the back of the array.
RowIndexRemove(ix, from, to) ==
  LET sliceTo(s, end) ==
        SubSeq(s, 1, IF end < 0 THEN Max(Len(s) + end, 0) ELSE Min(end, Len(s)))
      sliceFrom(s, start) ==
        IF start >= Len(s) THEN <<>> ELSE SubSeq(s, Max(start, 0) + 1, Len(s))
      RECURSIVE Loop(_, _, _)
      Loop(segs, i, currentPos) ==
        IF i > Len(segs) THEN segs
        ELSE IF segs[i].deleted
             \/ ~(currentPos <= to /\ currentPos + segs[i].length - 1 >= from)
        THEN Loop(segs, i + 1, currentPos + segs[i].length)
        ELSE IF currentPos >= from /\ currentPos + segs[i].length - 1 <= to
        THEN Loop([segs EXCEPT ![i].deleted = TRUE], i + 1, currentPos + segs[i].length)
        ELSE Loop(SubSeq(segs, 1, i - 1)
                    \o << [startPos |-> currentPos,
                           length |-> from - currentPos,
                           rowIds |-> sliceTo(segs[i].rowIds, from - currentPos),
                           deleted |-> FALSE],
                          [startPos |-> to + 1,
                           length |-> currentPos + segs[i].length - 1 - to,
                           rowIds |-> sliceFrom(segs[i].rowIds, to - currentPos + 1),
                           deleted |-> FALSE] >>
                    \o SubSeq(segs, i + 1, Len(segs)),
                  i + 1, currentPos + segs[i].length)
  IN IF from > to THEN ix ELSE [ix EXCEPT !.segments = Loop(ix.segments, 1, 0)]

\* RowIndex.getTotalRows / ColIndex.getTotalCols: the lengths of the segments
\* not marked deleted, added up
getTotalRows(ix) ==
  LET RECURSIVE Sum(_)
      Sum(i) ==
        IF i > Len(ix.segments) THEN 0
        ELSE (IF ix.segments[i].deleted THEN 0 ELSE ix.segments[i].length) + Sum(i + 1)
  IN Sum(1)

\* FormulaGraph.removeEdges: every edge leaving `of`, then every edge entering
\* it; both Map entries of `of` are deleted, the other cells keep their entry
removeEdges(g, of) ==
  LET outs == IF of \in DOMAIN g.dependents THEN g.dependents[of] ELSE {}
      pruned == [k \in DOMAIN g.dependencies |->
                   IF k \in outs THEN g.dependencies[k] \ {of} ELSE g.dependencies[k]]
      kept == MapRemove(g.dependents, of)
      ins == IF of \in DOMAIN pruned THEN pruned[of] ELSE {}
  IN [dependencies |-> MapRemove(pruned, of),
      dependents |-> [k \in DOMAIN kept |->
                        IF k \in ins THEN kept[k] \ {of} ELSE kept[k]]]

\* FormulaParser.parse for a text that tokenizes to at most one token made of
\* letters and digits (no operator, bracket, quote or function name): a run of
\* letters followed by digits is a reference to <<row_<digits>, col_<letters>>>,
\* a token that starts with a digit is the literal parseFloat reads from it,
\* anything else (no token at all included) throws
CoreParse(formula) ==
  LET token == IF formula # <<>> /\ Head(formula) = "=" THEN Tail(formula) ELSE formula
      nLetters == LetterRun(token)
      nDigits == DigitRun(SubSeq(token, nLetters + 1, Len(token)))
  IN IF nLetters >= 1 /\ nDigits >= 1 /\ nLetters + nDigits = Len(token)
     THEN [type |-> "reference",
           value |-> <<parseInt(SubSeq(token, nLetters + 1, Len(token))),
                       letterToCol(SubSeq(token, 1, nLetters))>>]
     ELSE IF DigitRun(token) >= 1
     THEN [type |-> "literal", value |-> Num(parseInt(SubSeq(token, 1, DigitRun(token))))]
     ELSE [type |-> "throws"]

\* the Scalar null, and the ErrorRef {type: 'ERROR', code}
Null == [t |-> "null", v |-> 0]
ErrorRef(code) == [t |-> code, v |-> 0]

\* FormulaEvaluator.evaluate: a literal is its value; a reference reads the
\* cell at the anchor's base address: a scalar cell's value, a formula cell's
\* cached value, null where there is none
evaluate(c, node) ==
  IF node.type = "literal" THEN node.value
  ELSE IF node.value \notin DOMAIN c.cells THEN Null
  ELSE IF c.cells[node.value].kind = "scalar" THEN c.cells[node.value].value
  ELSE IF c.cells[node.value].cached = Undefined THEN Null
  ELSE c.cells[node.value].cached

\* Sheet.addToHistory (the 1000-entry cap is beyond the bound on calls)
addToHistory(c, operation) ==
  LET kept == IF c.historyIndex < Len(c.history) - 1
              THEN SubSeq(c.history, 1, c.historyIndex + 1)
              ELSE c.history
  IN [c EXCEPT !.history = Append(kept, operation), !.historyIndex = Len(kept)]

\* Sheet.scheduleRecalc: queue the address if one is given and, when the queue
\* is not empty, hand recalculate to setTimeout(..., 0)
scheduleRecalc(c, address) ==
  LET queue == IF address # <<>> THEN c.recalcQueue \cup {address} ELSE c.recalcQueue
  IN [c EXCEPT !.recalcQueue = queue,
               !.timers = IF queue # {} THEN @ + 1 ELSE @]

\* Sheet.setCell
setCell(c, address, value) ==
  LET logged == addToHistory(c, [type |-> "setCell", address |-> address, value |-> value])
  IN scheduleRecalc([logged EXCEPT
                       !.cells = MapPut(@, address, [kind |-> "scalar", value |-> value]),
                       !.deps = removeEdges(@, address)],
                    address)

\* the keys of a Map or the members of a Set of address keys, listed by row
\* and then by column
KeysInOrder(S) ==
  LET RECURSIVE List(_)
      List(rest) ==
        IF rest = {} THEN <<>>
        ELSE LET first == CHOOSE k \in rest :
                            \A o \in rest : k[1] < o[1] \/ (k[1] = o[1] /\ k[2] <= o[2])
             IN <<first>> \o List(rest \ {first})
  IN List(S)

\* FormulaGraph.detectCycles: a depth-first walk along `dependents` from every
\* key of `dependencies`; a key met while it is on the recursion stack puts the
\* path from its first occurrence on into the list and unwinds the whole walk
\* (the stack keeps what was on it).  The Maps and Sets are walked in the order
\* of KeysInOrder; whether the list is empty does not depend on the order.
detectCycles(g) ==
  LET sliceFrom(path, start) ==
        IF start < 0 THEN SubSeq(path, Max(Len(path) + start, 0) + 1, Len(path))
        ELSE SubSeq(path, start + 1, Len(path))
      RECURSIVE dfs(_, _, _)
      RECURSIVE each(_, _, _, _)
      dfs(key, path, st) ==
        IF key \in st.recursionStack
        THEN [st EXCEPT !.cycles = @ \o sliceFrom(path, IndexOf(path, key) - 1),
                        !.found = TRUE]
        ELSE IF key \in st.visited THEN [st EXCEPT !.found = FALSE]
        ELSE each(key,
                  KeysInOrder(IF key \in DOMAIN g.dependents THEN g.dependents[key] ELSE {}),
                  Append(path, key),
                  [st EXCEPT !.visited = @ \cup {key}, !.recursionStack = @ \cup {key}])
      each(key, list, path, st) ==
        IF list = <<>>
        THEN [st EXCEPT !.recursionStack = @ \ {key}, !.found = FALSE]
        ELSE LET r == dfs(Head(list), path, st)
             IN IF r.found THEN r ELSE each(key, Tail(list), path, r)
      RECURSIVE roots(_, _)
      roots(list, st) ==
        IF list = <<>> THEN st.cycles
        ELSE roots(Tail(list),
                   IF Head(list) \in st.visited THEN st ELSE dfs(Head(list), <<>>, st))
  IN roots(KeysInOrder(DOMAIN g.dependencies),
           [visited |-> {}, recursionStack |-> {}, cycles |-> <<>>, found |-> FALSE])

\* Sheet.recalculate.  The queued formula cells lose their cached value; every
\* address detectCycles lists is overwritten with the CYCLE error through
\* setCell.  The evaluation loop tests
\* `affected.has(addr) || recalcQueue.has(addr)` with the address objects
\* keyToAddress has just created for `order`; a Set holds objects by identity,
\* so neither test holds for any of them and no cell is evaluated.  At the end
\* the queue is cleared.
recalculate(c) ==
  LET RECURSIVE mark(_, _)
      mark(sheet, cycles) ==
        IF cycles = <<>> THEN sheet
        ELSE mark(setCell(sheet, Head(cycles), ErrorRef("CYCLE")), Tail(cycles))
      uncached == [c EXCEPT
                     !.cells = [k \in DOMAIN c.cells |->
                                  IF k \in c.recalcQueue /\ c.cells[k].kind = "formula"
                                  THEN [c.cells[k] EXCEPT !.cached = Undefined]
                                  ELSE c.cells[k]]]
  IN IF c.recalcQueue = {} THEN c
     ELSE [mark(uncached, detectCycles(c.deps)) EXCEPT !.recalcQueue = {}]

\* ---------------------------------------------------------- state machine
VARIABLES rows, cols, cells, outgoing, incoming, watchers, formulaRanges, lastOp, prev, nOps,
          core

vars == <<rows, cols, cells, outgoing, incoming, watchers, formulaRanges, lastOp, prev, nOps, core>>

\* rows .. formulaRanges are the Table's sheet, core is the core Sheet with the
\* event loop's pending timers; lastOp is the public call that
\* produced the current state, prev the sheet as it was when that call began,
\* nOps the number of calls made so far.

\* the Table's sheet assembled from the state variables
Cur ==
  [rows |-> rows, cols |-> cols, cells |-> cells,
   deps |-> [outgoing |-> outgoing, incoming |-> incoming],
   ranges |-> [watchers |-> watchers, formulaRanges |-> formulaRanges]]

\* the formula texts offered to setFormula
Sources ==
  { <<"=", "A", "1">>,
    <<"=", "A", "2">>,
    <<"=", "B", "1">>,
    <<"=", "$", "A", "$", "1">>,
    <<"=", "S", "U", "M", "(", "A", "1", ":", "A", "2", ")">>,
    <<"=", "S", "U", "M", "(", "A", "1", ":", "$", "A", "$", "1", ")">>,
    <<"=", "S", "U", "M", "(", "A", "2", ":", "A", "1", ")">>,
    <<"=", "A">> }

\* the numbers offered to setValue
Values == {1, MaxVal}

Becomes(sh, op) ==
  /\ rows' = sh.rows
  /\ cols' = sh.cols
  /\ cells' = sh.cells
  /\ outgoing' = sh.deps.outgoing
  /\ incoming' = sh.deps.incoming
  /\ watchers' = sh.ranges.watchers
  /\ formulaRanges' = sh.ranges.formulaRanges
  /\ lastOp' = op
  /\ prev' = Cur
  /\ nOps' = nOps + 1
  /\ UNCHANGED core

Init ==
  /\ rows = NewAxisIndex(InitRows)
  /\ cols = NewAxisIndex(InitCols)
  /\ cells = <<>>
  /\ outgoing = EmptyMap
  /\ incoming = EmptyMap
  /\ watchers = EmptyMap
  /\ formulaRanges = EmptyMap
  /\ lastOp = [op |-> "new"]
  /\ prev = NewSheet(InitRows, InitCols)
  /\ nOps = 0
  /\ core = NewCoreSheet

\* positions offered to setValue / setFormula: those the sheet resolves
\* (an unresolved position makes both calls return at once)
LivePositions ==
  {p \in [r : 0..(maxPos(rows) + 1), c : 0..(maxPos(cols) + 1)] : PosHasAddr(Cur, p)}

SetValue ==
  /\ nOps < MaxOps
  /\ \E pos \in LivePositions, v \in Values :
       Becomes(setValue(Cur, pos, v), [op |-> "setValue", pos |-> pos, value |-> v])

SetFormula ==
  /\ nOps < MaxOps
  /\ \E pos \in LivePositions, src \in Sources :
       Becomes(setFormula(Cur, pos, src), [op |-> "setFormula", pos |-> pos, src |-> src])

InsertRows ==
  /\ nOps < MaxOps
  /\ \E atPos \in 1..(maxPos(rows) + 2), count \in 1..MaxIns :
       Becomes(insertRows(Cur, atPos, count),
               [op |-> "insertRows", atPos |-> atPos, count |-> count])

DeleteRows ==
  /\ nOps < MaxOps
  /\ \E from \in 0..maxPos(rows) : \E to \in (from - 1)..(maxPos(rows) + 1) :
       Becomes(deleteRows(Cur, from, to), [op |-> "deleteRows", from |-> from, to |-> to])

InsertCols ==
  /\ nOps < MaxOps
  /\ \E atPos \in 1..(maxPos(cols) + 2), count \in 1..MaxIns :
       Becomes(insertCols(Cur, atPos, count),
               [op |-> "insertCols", atPos |-> atPos, count |-> count])

DeleteCols ==
  /\ nOps < MaxOps
  /\ \E from \in 0..maxPos(cols) : \E to \in (from - 1)..(maxPos(cols) + 1) :
       Becomes(deleteCols(Cur, from, to), [op |-> "deleteCols", from |-> from, to |-> to])

Next == SetValue \/ SetFormula \/ InsertRows \/ DeleteRows \/ InsertCols \/ DeleteCols

Spec == Init /\ [][Next]_vars


\* ------------------------------------------------- vocabulary of the claims
IsSpliceOp(op) == op.op \in {"insertRows", "deleteRows", "insertCols", "deleteCols"}

\* the Splice record the Table builds for a structural operation
SpliceOf(op) ==
  IF op.op = "insertRows" THEN [axis |-> "row", atPos |-> op.atPos, del |-> 0, ins |-> op.count]
  ELSE IF op.op = "insertCols" THEN [axis |-> "col", atPos |-> op.atPos, del |-> 0, ins |-> op.count]
  ELSE IF op.op = "deleteRows" THEN [axis |-> "row", atPos |-> op.from, del |-> op.to - op.from + 1, ins |-> 0]
  ELSE [axis |-> "col", atPos |-> op.from, del |-> op.to - op.from + 1, ins |-> 0]

\* the anchors of an AST, by slot
Slots(ast) == IF ast.t = "Ref" THEN {"ref"} ELSE {"start", "end"}
AnchorAt(ast, slot) ==
  IF slot = "ref" THEN ast.ref ELSE IF slot = "start" THEN ast.range.start ELSE ast.range.end

AxisOf(sh, axis) == IF axis = "row" THEN sh.rows ELSE sh.cols
BaseIdOn(anchor, axis) == IF axis = "row" THEN anchor.base[1] ELSE anchor.base[2]
ModeOn(anchor, axis) == IF axis = "row" THEN anchor.rowMode ELSE anchor.colMode
OffsetOn(anchor, axis) == IF axis = "row" THEN anchor.dRow ELSE anchor.dCol

\* the position an anchor resolves to along one axis (its base must be live)
TargetPosOn(sh, anchor, axis) ==
  idToPos(AxisOf(sh, axis), BaseIdOn(anchor, axis)) + OffsetOn(anchor, axis)

IsFormulaAt(sh, key) == CellHas(sh.cells, key) /\ CellGet(sh.cells, key).kind = "formula"
FormulaKeys(sh) == {sh.cells[i].key : i \in {j \in 1..Len(sh.cells) : sh.cells[j].cell.kind = "formula"}}

\* the address and the parsed formula of the last setValue / setFormula call
OpAddr == posToAddr(prev, lastOp.pos)
OpFormula == parseFormula(lastOp.src, lastOp.pos, prev.rows, prev.cols)

\* the last call was a setFormula that parsed and passed the cycle check of the
\* graph as the call started
SetFormulaInstalled ==
  /\ lastOp.op = "setFormula"
  /\ OpFormula # BadFormula
  /\ \A i \in 1..Len(collectDependencies(prev, OpFormula)) :
       ~wouldCreateCycle(prev.deps, collectDependencies(prev, OpFormula)[i], OpAddr)

\* every edge that left the written address before the call is still there
ConsumersKept == \A e \in Edges(prev.deps) : e[1] = OpAddr => e \in Edges(Cur.deps)

\* the cached value of the formula cell at key is what evaluating its AST gives
CacheFresh(sh, key) ==
  CellGet(sh.cells, key).cached = evalFormula(sh, CellGet(sh.cells, key).ast, key).value


\* ------------------------------------------------------------------ C1
\* C1: after every public mutating operation, each Formula cell whose cache is
\* defined holds exactly the value that evaluating its AST against the current
\* sheet yields.  (Cells cached as #CYCLE! are left out here: the statement is
\* already broken without them.)
C1_CacheConsistency ==
  \A key \in FormulaKeys(Cur) :
    (CellGet(cells, key).cached # Undefined /\ CellGet(cells, key).cached # CycleError)
      => CacheFresh(Cur, key)


\* ------------------------------------------------------------------ C2
\* C2: a setFormula that parses and closes no cycle leaves the producers of the
\* written address equal to the new formula's dependencies, and keeps every
\* edge from the written address to its consumers.
C2_SetFormulaFrame ==
  SetFormulaInstalled =>
    /\ Range(getDependencies(Cur.deps, OpAddr)) = Range(collectDependencies(prev, OpFormula))
    /\ ConsumersKept


\* ------------------------------------------------------------------ C3
\* C3: setValue over a Formula cell removes only the edges into the cell; the
\* edges to its consumers stay and every formula reachable downstream has been
\* recalculated.
C3_SetValueOverFormula ==
  (lastOp.op = "setValue" /\ IsFormulaAt(prev, OpAddr)) =>
    /\ ConsumersKept
    /\ \A k \in Range(affectedFrom(prev.deps, <<OpAddr>>)) :
         (k # OpAddr /\ IsFormulaAt(Cur, k)) => CacheFresh(Cur, k)


\* ------------------------------------------------------------------ C4
\* C4: when some dependency of the new formula already reaches the written
\* address (a cycle through other cells), setFormula stores the formula with
\* cached value #CYCLE!, installs no edge into the address and keeps the edges
\* to the address's consumers.
C4_CycleRejected ==
  (/\ lastOp.op = "setFormula"
   /\ OpFormula # BadFormula
   /\ \E i \in 1..Len(collectDependencies(prev, OpFormula)) :
        LET d == collectDependencies(prev, OpFormula)[i]
        IN d # OpAddr /\ wouldCreateCycle(prev.deps, d, OpAddr))
  => /\ IsFormulaAt(Cur, OpAddr)
     /\ CellGet(cells, OpAddr).ast = OpFormula
     /\ CellGet(cells, OpAddr).cached = CycleError
     /\ getDependencies(Cur.deps, OpAddr) = <<>>
     /\ ConsumersKept


\* ------------------------------------------------------------------ C5
\* C5: after setValue or setFormula on an address inside the range of a SUM
\* formula stored elsewhere, that formula's cached value is the sum over its
\* range in the new sheet.
C5_SumFollowsEdit ==
  (lastOp.op \in {"setValue", "setFormula"}) =>
    \A f \in FormulaKeys(prev) :
      (/\ f # OpAddr
       /\ CellGet(prev.cells, f).ast.t = "Sum"
       /\ CellGet(prev.cells, f).cached # CycleError
       /\ OpAddr \in Range(expandRange(prev, CellGet(prev.cells, f).ast.range)))
      => /\ IsFormulaAt(Cur, f)
         /\ CellGet(cells, f).cached =
              Num(SumCells(cells, expandRange(Cur, CellGet(cells, f).ast.range)))


\* ------------------------------------------------- splice vocabulary
\* the axis and the Splice of the last structural call
OpSplice == SpliceOf(lastOp)
OpAxis == OpSplice.axis

\* the identifier an anchor resolves to along one axis
TargetIdOn(sh, anchor, axis) ==
  IF axis = "row" THEN anchorToAddress(anchor, sh.rows, sh.cols)[1]
  ELSE anchorToAddress(anchor, sh.rows, sh.cols)[2]

\* the position map of a splice as the specification words it (section 4.5)
PositionDies(splice, pos) ==
  splice.del > 0 /\ pos \in splice.atPos..(splice.atPos + splice.del - 1)
PositionImage(splice, pos) ==
  IF pos >= splice.atPos + splice.del THEN pos - splice.del + splice.ins
  ELSE IF splice.ins > 0 /\ pos >= splice.atPos THEN pos + splice.ins
  ELSE pos

\* the anchor in the same slot of the formula at key, before and after the call
AnchorBefore(key, slot) == AnchorAt(CellGet(prev.cells, key).ast, slot)
AnchorAfter(key, slot) == AnchorAt(CellGet(cells, key).ast, slot)

\* the anchors the last splice had to carry over: formula at key before and
\* after, the anchor's base identifier live on the spliced axis before and after
Carried(key, slot) ==
  /\ IsFormulaAt(prev, key)
  /\ IsFormulaAt(Cur, key)
  /\ slot \in Slots(CellGet(prev.cells, key).ast)
  /\ HasId(AxisOf(prev, OpAxis), BaseIdOn(AnchorBefore(key, slot), OpAxis))
  /\ HasId(AxisOf(Cur, OpAxis), BaseIdOn(AnchorBefore(key, slot), OpAxis))

AllSlots == {"ref", "start", "end"}


\* ------------------------------------------------------------------ C6
\* C6: after any row/column insertion or deletion, an anchor that is rel along
\* the splice axis, and whose base and target both survive, resolves to the
\* same row/column identifier as before.
C6_RelAnchorsTrack ==
  IsSpliceOp(lastOp) =>
    \A key \in FormulaKeys(prev), slot \in AllSlots :
      (/\ Carried(key, slot)
       /\ ModeOn(AnchorBefore(key, slot), OpAxis) = "rel"
       /\ AnchorResolves(AnchorBefore(key, slot), prev.rows, prev.cols)
       /\ HasId(AxisOf(Cur, OpAxis), TargetIdOn(prev, AnchorBefore(key, slot), OpAxis)))
      => /\ AnchorResolves(AnchorAfter(key, slot), rows, cols)
         /\ TargetIdOn(Cur, AnchorAfter(key, slot), OpAxis)
              = TargetIdOn(prev, AnchorBefore(key, slot), OpAxis)


\* ------------------------------------------------------------------ C8
\* C8: after any splice, an anchor that is abs along the splice axis and whose
\* base survives resolves to the same position as before the splice.
C8_AbsAnchorsPinned ==
  IsSpliceOp(lastOp) =>
    \A key \in FormulaKeys(prev), slot \in AllSlots :
      (Carried(key, slot) /\ ModeOn(AnchorBefore(key, slot), OpAxis) = "abs")
      => TargetPosOn(Cur, AnchorAfter(key, slot), OpAxis)
           = TargetPosOn(prev, AnchorBefore(key, slot), OpAxis)


AbsText == <<"=", "$", "A", "$", "1">>

\* the state right after setValue((1,1), MaxVal); setFormula((2,1), "=$A$1");
\* insertRows(1, 1) on a new sheet
C7_Scenario ==
  /\ nOps = 3
  /\ lastOp = [op |-> "insertRows", atPos |-> 1, count |-> 1]
  /\ prev.rows = NewAxisIndex(InitRows)
  /\ prev.cols = NewAxisIndex(InitCols)
  /\ prev.cells =
       << [key |-> <<0, 0>>, cell |-> ValueCell(Num(MaxVal))],
          [key |-> <<1, 0>>,
           cell |-> FormulaCell(parseFormula(AbsText, [r |-> 2, c |-> 1],
                                             NewAxisIndex(InitRows), NewAxisIndex(InitCols)),
                                Num(MaxVal))] >>

\* a formula that is one fully absolute reference, and a row insertion at or
\* above its row
AbsRefBelowInsertion(key) ==
  /\ lastOp.op = "insertRows"
  /\ IsFormulaAt(prev, key)
  /\ CellGet(prev.cells, key).ast.t = "Ref"
  /\ CellGet(prev.cells, key).ast.ref.rowMode = "abs"
  /\ CellGet(prev.cells, key).ast.ref.colMode = "abs"
  /\ AddrHasPos(prev, key)
  /\ lastOp.atPos <= addrToPos(prev, key).r

\* the row axis is one run of identifiers starting at position 1
OneRun(ax) == Len(ax.segments) = 1 /\ ax.segments[1].startPos = 1

DiesOn(sh, ast, axis, from, to) ==
  \E slot \in Slots(ast) :
    /\ HasId(AxisOf(sh, axis), BaseIdOn(AnchorAt(ast, slot), axis))
    /\ \/ idToPos(AxisOf(sh, axis), BaseIdOn(AnchorAt(ast, slot), axis)) \in from..to
       \/ /\ ModeOn(AnchorAt(ast, slot), axis) = "rel"
          /\ TargetPosOn(sh, AnchorAt(ast, slot), axis) \in from..to

\* C10: when deleteRows/deleteCols removes the position of a formula's base or
\* the position a rel anchor of it (the reference, or either end of a SUM
\* range) targets, the cell becomes Value(#REF!) and no edge of the dependency
\* graph enters it afterwards.
C10_ReferenceDeath ==
  (lastOp.op \in {"deleteRows", "deleteCols"}) =>
    \A key \in FormulaKeys(prev) :
      DiesOn(prev, CellGet(prev.cells, key).ast, OpAxis, lastOp.from, lastOp.to)
        => /\ CellGet(cells, key) = ValueCell(RefError)
           /\ getDependencies(Cur.deps, key) = <<>>
           /\ \A e \in Edges(Cur.deps) : e[2] # key

\* setValue((1,2), v); setFormula((1,1), "=B1"); deleteCols(2, 2): the formula
\* at (1,1) had an edge from (1,2) and lost its target
C10_Witness ==
  /\ lastOp = [op |-> "deleteCols", from |-> 2, to |-> 2]
  /\ IsFormulaAt(prev, <<0, 0>>)
  /\ CellGet(prev.cells, <<0, 0>>).ast.t = "Ref"
  /\ <<<<0, 1>>, <<0, 0>>>> \in Edges(prev.deps)
  /\ DiesOn(prev, CellGet(prev.cells, <<0, 0>>).ast, "col", 2, 2)
  /\ CellGet(cells, <<0, 0>>) = ValueCell(RefError)


\* ------------------------------------------------- retirement vocabulary
\* the component of a cell key that lies on one axis
KeyIdOn(key, axis) == IF axis = "row" THEN key[1] ELSE key[2]

\* both identifiers of a cell key are live in the sheet's AxisIndexes
KeyLive(sh, key) == HasId(sh.rows, key[1]) /\ HasId(sh.cols, key[2])

\* the identifiers the last call took out of the axis it worked on
RetiredByOp == LiveIds(AxisOf(prev, OpAxis)) \ LiveIds(AxisOf(Cur, OpAxis))


\* ----------------------------------------------------------------- C11
\* C11: after any sequence of Table operations every cell key held by the
\* CellStore has a live row identifier and a live column identifier; when no
\* row or no column is left the CellStore is empty.
C11_CellKeysLive ==
  /\ \A i \in 1..Len(cells) : KeyLive(Cur, cells[i].key)
  /\ (LiveIds(rows) = {} \/ LiveIds(cols) = {}) => cells = <<>>


\* ----------------------------------------------------------------- C12
\* C12: after deleteRows/deleteCols returns, no edge of the DepGraph has an
\* endpoint whose identifier on the deleted axis was retired by the call.
C12_NoEdgeTouchesRetired ==
  (lastOp.op \in {"deleteRows", "deleteCols"}) =>
    \A e \in Edges(Cur.deps) :
      /\ KeyIdOn(e[1], OpAxis) \notin RetiredByOp
      /\ KeyIdOn(e[2], OpAxis) \notin RetiredByOp


\* ----------------------------------------------------------------- C13
\* the positions at which two sheets are compared
AllPositions(a, b) ==
  [r : 1..Max(maxPos(a.rows), maxPos(b.rows)), c : 1..Max(maxPos(a.cols), maxPos(b.cols))]

\* the sheet after insert(atPos, k) immediately followed by
\* delete(atPos, atPos + k - 1) along one axis
RoundTrip(sh, axis, atPos, k) ==
  IF axis = "row"
  THEN deleteRows(insertRows(sh, atPos, k), atPos, atPos + k - 1)
  ELSE deleteCols(insertCols(sh, atPos, k), atPos, atPos + k - 1)

\* the identifiers insert(atPos, k) mints on the axis of sh
MintedBy(sh, axis, k) == AxisOf(sh, axis).nextId..(AxisOf(sh, axis).nextId + k - 1)

\* getValue at every position and the edge set are as before, and the minted
\* identifiers are not live
RoundTripNeutral(sh, axis, atPos, k) ==
  /\ \A p \in AllPositions(sh, RoundTrip(sh, axis, atPos, k)) :
       getValue(RoundTrip(sh, axis, atPos, k), p) = getValue(sh, p)
  /\ Edges(RoundTrip(sh, axis, atPos, k).deps) = Edges(sh.deps)
  /\ MintedBy(sh, axis, k) \cap LiveIds(AxisOf(RoundTrip(sh, axis, atPos, k), axis)) = {}

\* C13: from any reachable Table state, insertRows(atPos, k) immediately
\* followed by deleteRows(atPos, atPos+k-1), for atPos in 1..maxPos+1 and
\* k >= 1 (likewise for columns), leaves getValue at every position and the set
\* of DepGraph edges as they were, and the k minted identifiers are not live.
C13_InsertDeleteRoundTrip ==
  \A axis \in {"row", "col"} :
    \A atPos \in 1..(maxPos(AxisOf(Cur, axis)) + 1), k \in 1..MaxIns :
      RoundTripNeutral(Cur, axis, atPos, k)


\* ------------------------------------------------- frame vocabulary
\* the same keys hold the same cells (kind, AST, value or cached value)
SameCells(a, b) ==
  /\ {a.cells[i].key : i \in 1..Len(a.cells)} = {b.cells[i].key : i \in 1..Len(b.cells)}
  /\ \A i \in 1..Len(a.cells) : CellGet(b.cells, a.cells[i].key) = a.cells[i].cell

\* the same position <-> identifier mapping on both axes
SameAxes(a, b) == a.rows.segments = b.rows.segments /\ a.cols.segments = b.cols.segments

\* the last call was a delete
IsDeleteOp == lastOp.op \in {"deleteRows", "deleteCols"}


\* ----------------------------------------------------------------- C14
\* C14: deleteRows(from, to) / deleteCols(from, to) with to < from leaves the
\* AxisIndexes, every cell (kind, AST, value or cached value) and the edges of
\* the DepGraph as they were.
C14_EmptyDeleteNoOp ==
  (IsDeleteOp /\ lastOp.to < lastOp.from) =>
    /\ SameAxes(Cur, prev)
    /\ SameCells(Cur, prev)
    /\ Edges(Cur.deps) = Edges(prev.deps)


\* ----------------------------------------------------------------- C15
\* C15: deleteRows/deleteCols called with from < 1 or to > maxPos changes no
\* position <-> identifier mapping, no cell (so no formula offset) and no edge
\* of the DepGraph.
C15_OutOfRangeDeleteNoOp ==
  (IsDeleteOp /\ (lastOp.from < 1 \/ lastOp.to > maxPos(AxisOf(prev, OpAxis)))) =>
    /\ SameAxes(Cur, prev)
    /\ SameCells(Cur, prev)
    /\ Edges(Cur.deps) = Edges(prev.deps)


\* ----------------------------------------------------------------- C16
\* C16: setFormula(pos, text) with a text the parser rejects stores
\* Value(#REF!) at pos, and afterwards no edge of the DepGraph enters that
\* cell.
C16_ParseFailure ==
  (lastOp.op = "setFormula" /\ OpFormula = BadFormula) =>
    /\ CellGet(cells, OpAddr) = ValueCell(RefError)
    /\ getDependencies(Cur.deps, OpAddr) = <<>>
    /\ \A e \in Edges(Cur.deps) : e[2] # OpAddr


\* ------------------------------------------------- AxisIndex vocabulary
\* the positions and identifiers an axis can speak about
AxisPositions(ax) == 0..(maxPos(ax) + 1)
AxisIds(ax) == 0..(ax.nextId - 1)

\* posToId(p) = id exactly when idToPos(id) = p
Bijective(ax) ==
  \A p \in AxisPositions(ax), id \in AxisIds(ax) :
    (HasPos(ax, p) /\ posToId(ax, p) = id) <=> (HasId(ax, id) /\ idToPos(ax, id) = p)


\* ----------------------------------------------------------------- C17
\* C17: after any sequence of AxisIndex.insert and AxisIndex.remove calls, on
\* both axes, posToId(p) = id if and only if idToPos(id) = p, for every
\* position p and identifier id.
C17_AxisBijection == Bijective(rows) /\ Bijective(cols)


\* the axis the last structural call worked on, before and after the call
AxisBefore == AxisOf(prev, OpAxis)
AxisAfter == AxisOf(Cur, OpAxis)

\* the last call was an insert, and the identifiers AxisIndex.insert returned
IsInsertOp == lastOp.op \in {"insertRows", "insertCols"}
ReturnedId(i) == AxisBefore.nextId + i

\* identifier id sits at position p, seen from both lookups
SitsAt(ax, id, p) == HasId(ax, id) /\ idToPos(ax, id) = p /\ HasPos(ax, p) /\ posToId(ax, p) = id


\* ----------------------------------------------------------------- C18
\* C18: AxisIndex.insert(atPos, count) with 1 <= atPos <= maxPos+1 puts the
\* i-th returned identifier at position atPos+i, moves every identifier
\* formerly at a position p >= atPos to p+count and leaves every identifier
\* formerly at p < atPos at p; with atPos > maxPos+1 the new identifiers are
\* at positions maxPos+1 .. maxPos+count.
C18_InsertPlacement ==
  IsInsertOp =>
    IF lastOp.atPos <= maxPos(AxisBefore) + 1
    THEN /\ \A i \in 0..(lastOp.count - 1) :
              SitsAt(AxisAfter, ReturnedId(i), lastOp.atPos + i)
         /\ \A id \in LiveIds(AxisBefore) :
              /\ HasId(AxisAfter, id)
              /\ idToPos(AxisAfter, id) =
                   IF idToPos(AxisBefore, id) >= lastOp.atPos
                   THEN idToPos(AxisBefore, id) + lastOp.count
                   ELSE idToPos(AxisBefore, id)
    ELSE \A i \in 0..(lastOp.count - 1) :
           SitsAt(AxisAfter, ReturnedId(i), maxPos(AxisBefore) + 1 + i)


\* ----------------------------------------------------------------- C19
\* C19: AxisIndex.remove({from, to}) with 1 <= from <= to <= maxPos: exactly
\* the identifiers that were at positions from..to stop being live, every
\* identifier formerly at p > to is at p - (to - from + 1), and every
\* identifier formerly at p < from is still at p.
C19_RemovePlacement ==
  (/\ IsDeleteOp
   /\ 1 <= lastOp.from
   /\ lastOp.from <= lastOp.to
   /\ lastOp.to <= maxPos(AxisBefore))
  => \A id \in LiveIds(AxisBefore) :
       IF idToPos(AxisBefore, id) \in lastOp.from..lastOp.to
       THEN ~HasId(AxisAfter, id)
       ELSE /\ HasId(AxisAfter, id)
            /\ idToPos(AxisAfter, id) =
                 IF idToPos(AxisBefore, id) > lastOp.to
                 THEN idToPos(AxisBefore, id) - (lastOp.to - lastOp.from + 1)
                 ELSE idToPos(AxisBefore, id)


\* ----------------------------------------------------------------- C20
\* the identifiers an axis has minted and does not hold any more
Retired(ax) == AxisIds(ax) \ LiveIds(ax)

\* every position a lookup can be asked about after MaxOps calls
LookupPositions(ax) == (0 - MaxOps)..(maxPos(ax) + 1)

\* one call seen from one axis: nothing was minted twice and nothing retired
\* came back
LifecycleStep(before, after) ==
  /\ LiveIds(after) \subseteq AxisIds(after)
  /\ AxisIds(before) \subseteq AxisIds(after)
  /\ (LiveIds(after) \ LiveIds(before)) \cap AxisIds(before) = {}
  /\ \A id \in Retired(before) :
       /\ ~HasId(after, id)
       /\ \A p \in LookupPositions(after) : HasPos(after, p) => posToId(after, p) # id

\* C20: Live -> Removed is terminal: on both axes, across every call, insert
\* brings in exactly count identifiers none of which the constructor or an
\* earlier insert produced, and an identifier that was retired is not found by
\* idToPos and not returned by posToId afterwards.
C20_IdentifierLifecycle ==
  /\ LifecycleStep(prev.rows, rows)
  /\ LifecycleStep(prev.cols, cols)
  /\ IsInsertOp =>
       Cardinality(LiveIds(AxisAfter) \ AxisIds(AxisBefore)) = lastOp.count

\* an insert on an axis that had retired an identifier before
C20_Witness ==
  /\ IsInsertOp
  /\ Retired(AxisBefore) # {}
  /\ ReturnedId(0) \in LiveIds(AxisAfter)
  /\ Retired(AxisBefore) \subseteq Retired(AxisAfter)


\* ---------------------------------------------- DepGraph state machine
\* The DepGraph driven directly through its own methods: outgoing and incoming
\* are the graph, lastOp the method called last, prev.deps the graph as that
\* call began; the rest of the sheet stays as constructed.

\* the cell keys offered as graph nodes
GraphNodes == {<<0, 0>>, <<0, 1>>, <<1, 0>>}

\* the arrays offered to replaceAllInbound as newFrom (repeats allowed)
ProducerLists == UNION {[1..n -> GraphNodes] : n \in 0..MaxProducers}

GraphBecomes(g, op) ==
  /\ outgoing' = g.outgoing
  /\ incoming' = g.incoming
  /\ lastOp' = op
  /\ prev' = Cur
  /\ nOps' = nOps + 1
  /\ UNCHANGED <<rows, cols, cells, watchers, formulaRanges, core>>

GraphAddEdge ==
  /\ nOps < MaxOps
  /\ \E from \in GraphNodes, to \in GraphNodes :
       GraphBecomes(addEdge(Cur.deps, from, to), [op |-> "addEdge", from |-> from, to |-> to])

GraphReplaceAllInbound ==
  /\ nOps < MaxOps
  /\ \E of \in GraphNodes, newFrom \in ProducerLists :
       GraphBecomes(replaceAllInbound(Cur.deps, of, newFrom),
                    [op |-> "replaceAllInbound", of |-> of, newFrom |-> newFrom])

GraphRemoveAll ==
  /\ nOps < MaxOps
  /\ \E of \in GraphNodes :
       GraphBecomes(removeAll(Cur.deps, of), [op |-> "removeAll", of |-> of])

\* wouldCreateCycle only reads the graph; its return value is kept in lastOp
GraphWouldCreateCycle ==
  /\ nOps < MaxOps
  /\ \E from \in GraphNodes, to \in GraphNodes :
       GraphBecomes(Cur.deps,
                    [op |-> "wouldCreateCycle", from |-> from, to |-> to,
                     result |-> wouldCreateCycle(Cur.deps, from, to)])

GraphNext ==
  GraphAddEdge \/ GraphReplaceAllInbound \/ GraphRemoveAll \/ GraphWouldCreateCycle

GraphSpec == Init /\ [][GraphNext]_vars


\* ----------------------------------------------------------------- C21
\* C21: after replaceAllInbound(node, producers), getDependencies(node) is
\* exactly the set of the producers, getDependents(p) contains node exactly for
\* the p among the producers, and getDependencies(m) of every other node m is
\* what it was.
C21_ReplaceAllInbound ==
  (lastOp.op = "replaceAllInbound") =>
    /\ Range(getDependencies(Cur.deps, lastOp.of)) = Range(lastOp.newFrom)
    /\ \A p \in GraphNodes :
         (lastOp.of \in Range(getDependents(Cur.deps, p))) <=> (p \in Range(lastOp.newFrom))
    /\ \A m \in GraphNodes \ {lastOp.of} :
         getDependencies(Cur.deps, m) = getDependencies(prev.deps, m)

\* the call replaced a producer of the node by another one while a second node
\* had producers of its own
C21_Witness ==
  /\ lastOp.op = "replaceAllInbound"
  /\ Range(getDependencies(prev.deps, lastOp.of)) \ Range(lastOp.newFrom) # {}
  /\ Range(lastOp.newFrom) \ Range(getDependencies(prev.deps, lastOp.of)) # {}
  /\ \E m \in GraphNodes \ {lastOp.of} : getDependencies(prev.deps, m) # <<>>


\* ----------------------------------------------------------------- C22
\* the nodes reached from the set S by at most n producer -> consumer edges
OneStep(g, S) == S \cup {e[2] : e \in {d \in Edges(g) : d[1] \in S}}

RECURSIVE ReachWithin(_, _, _)
ReachWithin(g, S, n) == IF n = 0 THEN S ELSE ReachWithin(g, OneStep(g, S), n - 1)

\* there is a path of zero or more edges from a to b
PathExists(g, a, b) == b \in ReachWithin(g, {a}, Cardinality(GraphNodes))

\* C22: wouldCreateCycle(from, to) returns true if and only if the graph holds
\* a path of zero or more producer -> consumer edges from `to` to `from`, on
\* every graph reachable by addEdge / replaceAllInbound / removeAll, and the
\* graph is the same after the call.
C22_WouldCreateCycle ==
  (lastOp.op = "wouldCreateCycle") =>
    /\ lastOp.result <=> PathExists(prev.deps, lastOp.to, lastOp.from)
    /\ Cur.deps = prev.deps

\* the call answered true for a path that needs two edges
C22_Witness ==
  /\ lastOp.op = "wouldCreateCycle"
  /\ lastOp.result
  /\ lastOp.from # lastOp.to
  /\ <<lastOp.to, lastOp.from>> \notin Edges(prev.deps)


\* ----------------------------------------------------------------- C23
\* the last structural call, replayed up to its call of recalc: the result of
\* the transformation loop, the sheet recalc starts from, and the order in
\* which recalc evaluates the formula cells
SpliceAcc ==
  TransformLoop(prev, OpSplice, 1, [cells |-> prev.cells, deps |-> prev.deps, dirty |-> <<>>])
SheetAtRecalc ==
  SpliceSheet([prev EXCEPT !.cells = SpliceAcc.cells, !.deps = SpliceAcc.deps], OpSplice)
EvalOrder ==
  SelectSeq(topologicalSort(SheetAtRecalc.deps, affectedFrom(SheetAtRecalc.deps, SpliceAcc.dirty)),
            LAMBDA k : IsFormulaAt(SheetAtRecalc, k))

\* a and b lie on one cycle of the graph (paths are at most MaxOps edges long:
\* only formula cells have producers, and there are at most MaxOps of them)
OnCommonCycle(g, a, b) ==
  b \in ReachWithin(g, {a}, MaxOps) /\ a \in ReachWithin(g, {b}, MaxOps)

\* C23: in the recalc of a splice every formula cell is evaluated after every
\* formula cell of the affected set that is one of its producers in the graph
\* the drain leaves (producers a Sum acquired through replaceAllInbound during
\* the drain included).  Cells on a common cycle are left out.
C23_RecalcOrder ==
  IsSpliceOp(lastOp) =>
    \A i \in 1..Len(EvalOrder), j \in 1..Len(EvalOrder) :
      (/\ <<EvalOrder[i], EvalOrder[j]>> \in Edges(Cur.deps)
       /\ ~OnCommonCycle(Cur.deps, EvalOrder[i], EvalOrder[j]))
      => i < j


\* ----------------------------------------------------------------- C24
\* the formula stored at key still closes a cycle: one of the addresses it
\* reads is reached from key (key itself included)
ClosesCycle(sh, key) ==
  AnyWouldCreateCycle(sh.deps, collectDependencies(sh, CellGet(sh.cells, key).ast), key)

\* C24: a formula cell that was cached as #CYCLE! before a row/column
\* insertion or deletion, and whose formula still closes the cycle afterwards,
\* is still cached as #CYCLE! when the call (and its recalc) returns.
C24_CycleStaysMarked ==
  IsSpliceOp(lastOp) =>
    \A key \in FormulaKeys(prev) :
      (/\ CellGet(prev.cells, key).cached = CycleError
       /\ IsFormulaAt(Cur, key)
       /\ ClosesCycle(Cur, key))
      => CellGet(cells, key).cached = CycleError


\* ----------------------------------------------------------------- C25
\* the scalar a cell shows to a reader: its value, or its cached value
ShownScalar(cell) == IF cell.kind = "value" THEN cell.value ELSE cell.cached

\* what a reference to anchor is to evaluate to: #REF! when the anchor does
\* not resolve, 0 when the target cell is missing, else the target's scalar,
\* an error sentinel included (a formula not cached yet counts as 0)
RefValue(sh, anchor) ==
  IF ~AnchorResolves(anchor, sh.rows, sh.cols) THEN RefError
  ELSE IF ~CellHas(sh.cells, anchorToAddress(anchor, sh.rows, sh.cols)) THEN Num(0)
  ELSE IF ShownScalar(CellGet(sh.cells, anchorToAddress(anchor, sh.rows, sh.cols))) = Undefined
  THEN Num(0)
  ELSE ShownScalar(CellGet(sh.cells, anchorToAddress(anchor, sh.rows, sh.cols)))

\* C25: a Ref formula that setFormula installs is cached as 0 only when the
\* target cell is missing (or holds 0), as #REF! when the anchor does not
\* resolve, and as the target's error sentinel when the target holds or caches
\* #REF! or #CYCLE!.
C25_RefPropagatesErrors ==
  (SetFormulaInstalled /\ OpFormula.t = "Ref") =>
    CellGet(cells, OpAddr).cached = RefValue(Cur, OpFormula.ref)


\* ----------------------------------------------------------------- C26
\* the addresses inside the rectangle a range spans once both ends resolve
RectangleAddrs(sh, range) ==
  LET s == addrToPos(sh, anchorToAddress(range.start, sh.rows, sh.cols))
      e == addrToPos(sh, anchorToAddress(range.end, sh.rows, sh.cols))
  IN {posToAddr(sh, p) :
        p \in {q \in [r : Min(s.r, e.r)..Max(s.r, e.r), c : Min(s.c, e.c)..Max(s.c, e.c)] :
                 PosHasAddr(sh, q)}}

\* the number a populated cell with a numeric scalar adds, 0 for any other
NumericPart(sh, addr) ==
  IF CellHas(sh.cells, addr) /\ IsNumber(ShownScalar(CellGet(sh.cells, addr)))
  THEN ShownScalar(CellGet(sh.cells, addr)).v
  ELSE 0

RECURSIVE SumOver(_, _)
SumOver(sh, addrs) ==
  IF addrs = {} THEN 0
  ELSE LET a == CHOOSE x \in addrs : TRUE
       IN NumericPart(sh, a) + SumOver(sh, addrs \ {a})

RangeResolves(sh, range) ==
  /\ AnchorResolves(range.start, sh.rows, sh.cols)
  /\ AnchorResolves(range.end, sh.rows, sh.cols)
  /\ AddrHasPos(sh, anchorToAddress(range.start, sh.rows, sh.cols))
  /\ AddrHasPos(sh, anchorToAddress(range.end, sh.rows, sh.cols))

\* C26: the value computed for a Sum formula whose range resolves is the sum
\* of the numeric scalars (values, numeric cached values) of the populated
\* cells inside the rectangle, 0 when there is none: for the Sum setFormula
\* has just installed, and for evalFormula on every Sum stored in the sheet.
C26_SumSemantics ==
  /\ (SetFormulaInstalled /\ OpFormula.t = "Sum" /\ RangeResolves(Cur, OpFormula.range)) =>
       CellGet(cells, OpAddr).cached = Num(SumOver(Cur, RectangleAddrs(Cur, OpFormula.range)))
  /\ \A key \in FormulaKeys(Cur) :
       (CellGet(cells, key).ast.t = "Sum" /\ RangeResolves(Cur, CellGet(cells, key).ast.range)) =>
         evalFormula(Cur, CellGet(cells, key).ast, key).value =
           Num(SumOver(Cur, RectangleAddrs(Cur, CellGet(cells, key).ast.range)))

\* setFormula installed a Sum over a rectangle that holds a number and a cell
\* whose scalar is not a number
C26_Witness ==
  /\ SetFormulaInstalled
  /\ OpFormula.t = "Sum"
  /\ RangeResolves(Cur, OpFormula.range)
  /\ \E a \in RectangleAddrs(Cur, OpFormula.range) : NumericPart(Cur, a) > 0
  /\ \E a \in RectangleAddrs(Cur, OpFormula.range) :
       CellHas(cells, a) /\ ~IsNumber(ShownScalar(CellGet(cells, a)))
  /\ CellGet(cells, OpAddr).cached # Num(0)


\* ----------------------------------------------------------------- C27
\* start.resolve() <= end.resolve() on the row and on the column component
Oriented(sh, range) ==
  /\ TargetPosOn(sh, range.start, "row") <= TargetPosOn(sh, range.end, "row")
  /\ TargetPosOn(sh, range.start, "col") <= TargetPosOn(sh, range.end, "col")

\* C27: after any splice, every cell that still holds a Sum formula has
\* start.resolve() <= end.resolve() on the row and on the column component.
C27_RangeOrientation ==
  IsSpliceOp(lastOp) =>
    \A key \in FormulaKeys(Cur) :
      (CellGet(cells, key).ast.t = "Sum" /\ KeyLive(Cur, key)) =>
        Oriented(Cur, CellGet(cells, key).ast.range)


\* ----------------------------------------------------------------- C28
\* C28: after any sequence of Table operations, every edge a -> b of the
\* DepGraph ends in a formula cell b of the CellStore, and a is one of the
\* addresses b's AST resolves to in the current sheet (the Ref target, or an
\* address of the Sum rectangle).
C28_EdgeValidity ==
  \A e \in Edges(Cur.deps) :
    /\ IsFormulaAt(Cur, e[2])
    /\ e[1] \in Range(collectDependencies(Cur, CellGet(cells, e[2]).ast))


\* ----------------------------------------------------------------- C29
\* C29: for every AST that parseFormula produced at the position setFormula
\* was called with (references aiming outside the sheet's extent included),
\* parsing the text formatFormula prints for it, at the same position, gives
\* the same AST.
C29_ParseFormatRoundTrip ==
  (lastOp.op = "setFormula" /\ OpFormula # BadFormula) =>
    parseFormula(formatFormula(OpFormula, prev.rows, prev.cols),
                 lastOp.pos, prev.rows, prev.cols) = OpFormula


\* ----------------------------------------------- core Sheet state machine
\* The Sheet of src/src/core driven by its public methods and by the event
\* loop, which runs one pending setTimeout callback between two calls.  The
\* Table's variables stay as Init left them; prev is the core Sheet as it was
\* when the call began.

\* the addresses offered to the calls (A1 and B1), the scalars offered to
\* setCell (numbers from 0 on, the boolean false and the empty string: a
\* boolean is [t |-> "bool", v |-> 0 or 1], a string [t |-> "str"] with its
\* length as v), and the formula texts offered to setFormula
CoreAddresses == {<<1, 1>>, <<1, 2>>}
CoreValues ==
  {Num(n) : n \in 0..CoreMaxVal} \cup {[t |-> "bool", v |-> 0], [t |-> "str", v |-> 0]}
CoreSources == { <<"=", "A", "1">>, <<"=", "1">>, <<"=">> }
\* setFormula is called on B1 with any of these texts and on A1 with the
\* text that reads B1
CoreSourcesAt(address) == IF address = <<1, 2>> THEN CoreSources ELSE { <<"=", "B", "1">> }

CoreSetCell ==
  /\ nOps < MaxCoreOps
  /\ \E address \in CoreAddresses, value \in CoreValues :
       /\ core' = setCell(core, address, value)
       /\ lastOp' = [op |-> "Sheet.setCell", address |-> address, value |-> value]
  /\ nOps' = nOps + 1
  /\ prev' = core
  /\ UNCHANGED <<rows, cols, cells, outgoing, incoming, watchers, formulaRanges>>

\* Sheet.setFormula with buildDependencies / extractReferences /
\* resolveReference: a text the parser rejects stores the VALUE error through
\* setCell; otherwise the cell is stored without a cached value and a
\* reference adds the edge from its base address to the formula's cell
CoreSetFormula ==
  /\ nOps < MaxCoreOps
  /\ \E address \in CoreAddresses : \E formula \in CoreSourcesAt(address) :
       LET ast == CoreParse(formula)
           logged == addToHistory(core, [type |-> "setFormula", address |-> address, formula |-> ast])
           cleared == removeEdges(core.deps, address)
           built == IF ast.type = "reference"
                    THEN [dependencies |->
                            MapPut(cleared.dependencies, address,
                                   (IF address \in DOMAIN cleared.dependencies
                                    THEN cleared.dependencies[address] ELSE {})
                                     \cup {ast.value}),
                          dependents |->
                            MapPut(cleared.dependents, ast.value,
                                   (IF ast.value \in DOMAIN cleared.dependents
                                    THEN cleared.dependents[ast.value] ELSE {})
                                     \cup {address})]
                    ELSE cleared
       IN /\ core' = IF ast.type = "throws"
                     THEN setCell(core, address, ErrorRef("VALUE"))
                     ELSE scheduleRecalc(
                            [logged EXCEPT
                               !.deps = built,
                               !.cells = MapPut(@, address,
                                                [kind |-> "formula", ast |-> ast,
                                                 cached |-> Undefined])],
                            address)
          /\ lastOp' = [op |-> "Sheet.setFormula", address |-> address, formula |-> formula]
  /\ nOps' = nOps + 1
  /\ prev' = core
  /\ UNCHANGED <<rows, cols, cells, outgoing, incoming, watchers, formulaRanges>>

\* Sheet.getValue: null for no cell, `value || null` for a scalar cell, the
\* cached value of a formula cell if it has one, else the evaluator's result,
\* which is then cached.  lastOp keeps the result and the call it followed.
CoreGetValue ==
  /\ nOps < MaxCoreOps
  /\ \E address \in CoreAddresses :
       LET has == address \in DOMAIN core.cells
           cell == core.cells[address]
           fresh == evaluate(core, cell.ast)
           result == IF ~has THEN Null
                     ELSE IF cell.kind = "scalar"
                          THEN IF cell.value.t \in {"num", "bool", "str", "null"} /\ cell.value.v = 0
                               THEN Null
                               ELSE cell.value
                     ELSE IF cell.cached # Undefined THEN cell.cached
                     ELSE fresh
       IN /\ core' = IF has /\ cell.kind = "formula" /\ cell.cached = Undefined
                     THEN [core EXCEPT !.cells[address].cached = fresh]
                     ELSE core
          /\ lastOp' = [op |-> "Sheet.getValue", address |-> address,
                        result |-> result, after |-> lastOp.op]
  /\ nOps' = nOps + 1
  /\ prev' = core
  /\ UNCHANGED <<rows, cols, cells, outgoing, incoming, watchers, formulaRanges>>

\* Sheet.insertRows / Sheet.insertCols (the updateReferencesAfter... methods
\* have empty bodies)
CoreInsert ==
  /\ nOps < MaxCoreOps
  /\ \E axis \in {"Rows", "Cols"}, position \in {0}, count \in 1..CoreMaxIns :
       LET logged == addToHistory(core, [type |-> "insert" \o axis,
                                         position |-> position, count |-> count])
       IN /\ core' = scheduleRecalc(
                       IF axis = "Rows"
                       THEN [logged EXCEPT !.rows = RowIndexInsert(@, position, count)]
                       ELSE [logged EXCEPT !.cols = RowIndexInsert(@, position, count)],
                       <<>>)
          /\ lastOp' = [op |-> "Sheet.insert" \o axis, position |-> position, count |-> count]
  /\ nOps' = nOps + 1
  /\ prev' = core
  /\ UNCHANGED <<rows, cols, cells, outgoing, incoming, watchers, formulaRanges>>

\* Sheet.deleteRows / Sheet.deleteCols: the cells of the identifiers found in
\* the range leave the store (CellStore.removeRows / removeCols); the loop
\* that follows looks for cells of those identifiers in the store and so
\* finds none, leaving the graph as it is; then the index drops the range
CoreDelete ==
  /\ nOps < MaxCoreOps
  /\ \E axis \in {"Rows", "Cols"}, range \in {<<0, 0>>, <<0, 1>>} :
       LET logged == addToHistory(core, [type |-> "delete" \o axis, range |-> range])
           index == IF axis = "Rows" THEN core.rows ELSE core.cols
           ids == {RowIndexPosToId(index, i) : i \in range[1]..range[2]} \ {0}
           left == {k \in DOMAIN core.cells :
                      (IF axis = "Rows" THEN k[1] ELSE k[2]) \notin ids}
           stored == [logged EXCEPT !.cells = [k \in left |-> core.cells[k]]]
       IN /\ core' = scheduleRecalc(
                       IF axis = "Rows"
                       THEN [stored EXCEPT !.rows = RowIndexRemove(@, range[1], range[2])]
                       ELSE [stored EXCEPT !.cols = RowIndexRemove(@, range[1], range[2])],
                       <<>>)
          /\ lastOp' = [op |-> "Sheet.delete" \o axis, range |-> range]
  /\ nOps' = nOps + 1
  /\ prev' = core
  /\ UNCHANGED <<rows, cols, cells, outgoing, incoming, watchers, formulaRanges>>

\* the event loop runs one pending setTimeout callback: Sheet.recalculate
CoreTimer ==
  /\ nOps < MaxCoreOps
  /\ core.timers > 0
  /\ core' = [recalculate(core) EXCEPT !.timers = @ - 1]
  /\ lastOp' = [op |-> "timer"]
  /\ nOps' = nOps + 1
  /\ prev' = core
  /\ UNCHANGED <<rows, cols, cells, outgoing, incoming, watchers, formulaRanges>>

\* Sheet.undo: false on an empty history position; otherwise the position
\* moves back one operation and, for a setCell or setFormula, the cell at the
\* operation's address is deleted from the store
CoreUndo ==
  /\ nOps < MaxCoreOps
  /\ LET operation == core.history[core.historyIndex + 1]
          moved == [core EXCEPT !.historyIndex = @ - 1]
          undone == IF operation.type \in {"setCell", "setFormula"}
                    THEN [moved EXCEPT !.cells = MapRemove(@, operation.address)]
                    ELSE moved
     IN /\ core' = IF core.historyIndex < 0 THEN core ELSE scheduleRecalc(undone, <<>>)
        /\ lastOp' = [op |-> "Sheet.undo", result |-> core.historyIndex >= 0,
                      after |-> lastOp.op]
  /\ nOps' = nOps + 1
  /\ prev' = core
  /\ UNCHANGED <<rows, cols, cells, outgoing, incoming, watchers, formulaRanges>>

\* Sheet.redo: false when no undone operation is left; otherwise the position
\* moves forward one operation; a setCell is made again through setCell (which
\* logs it once more), a setFormula is left as it is (its case has no code)
CoreRedo ==
  /\ nOps < MaxCoreOps
  /\ LET moved == [core EXCEPT !.historyIndex = @ + 1]
          operation == core.history[moved.historyIndex + 1]
     IN /\ core' = IF core.historyIndex >= Len(core.history) - 1 THEN core
                    ELSE IF operation.type = "setCell"
                         THEN setCell(moved, operation.address, operation.value)
                         ELSE moved
        /\ lastOp' = [op |-> "Sheet.redo",
                      result |-> core.historyIndex < Len(core.history) - 1,
                      after |-> lastOp.op]
  /\ nOps' = nOps + 1
  /\ prev' = core
  /\ UNCHANGED <<rows, cols, cells, outgoing, incoming, watchers, formulaRanges>>

CoreNext ==
  \/ CoreSetCell \/ CoreSetFormula \/ CoreGetValue \/ CoreInsert \/ CoreDelete \/ CoreTimer
  \/ CoreUndo \/ CoreRedo

CoreSpec == Init /\ [][CoreNext]_vars

\* ----------------------------------------------------------------- C30
\* the mutating calls of the core Sheet
CoreMutators ==
  {"Sheet.setCell", "Sheet.setFormula", "Sheet.insertRows", "Sheet.deleteRows",
   "Sheet.insertCols", "Sheet.deleteCols"}

C31_SetGet ==
  /\ lastOp.op = "Sheet.setCell" =>
       /\ lastOp.address \in DOMAIN core.cells
       /\ core.cells[lastOp.address] = [kind |-> "scalar", value |-> lastOp.value]
  /\ (/\ lastOp.op = "Sheet.getValue"
      /\ lastOp.after = "Sheet.setCell"
      /\ lastOp.address = core.history[Len(core.history)].address)
       => lastOp.result = core.history[Len(core.history)].value



\* ----------------------------------------------------------------- C32
\* the index the last insert / delete call of the core Sheet worked on, as
\* the call found it and as it left it
CoreAxisBefore == IF lastOp.op \in {"Sheet.insertRows", "Sheet.deleteRows"} THEN prev.rows ELSE prev.cols
CoreAxisAfter == IF lastOp.op \in {"Sheet.insertRows", "Sheet.deleteRows"} THEN core.rows ELSE core.cols

\* C32: an insertRows(p, n) with 0 <= p <= total raises getTotalRows() by
\* exactly n, and a deleteRows([from, to]) with 0 <= from <= to < total lowers
\* it by exactly to - from + 1, whatever segments the earlier calls left (the
\* same for columns).
C32_RowAccounting ==
  /\ (/\ lastOp.op \in {"Sheet.insertRows", "Sheet.insertCols"}
      /\ lastOp.position \in 0..getTotalRows(CoreAxisBefore))
       => getTotalRows(CoreAxisAfter) = getTotalRows(CoreAxisBefore) + lastOp.count
  /\ (/\ lastOp.op \in {"Sheet.deleteRows", "Sheet.deleteCols"}
      /\ lastOp.range[1] <= lastOp.range[2]
      /\ lastOp.range[2] < getTotalRows(CoreAxisBefore))
       => getTotalRows(CoreAxisAfter)
            = getTotalRows(CoreAxisBefore) - (lastOp.range[2] - lastOp.range[1] + 1)



\* ----------------------------------------------------------------- C33
\* the operation an undo has taken back, and the one a redo has made again
UndoneOp == prev.history[prev.historyIndex + 1]
RedoneOp == prev.history[prev.historyIndex + 2]

\* C33: an undo() made right after a setCell or setFormula on address a
\* returns true and leaves a without that operation's cell; a redo() that
\* follows an undo of a setCell or setFormula on a returns true and leaves at
\* a a cell of the kind the operation stored, with the same value or formula.
C33_UndoRedo ==
  /\ (lastOp.op = "Sheet.undo" /\ lastOp.after \in {"Sheet.setCell", "Sheet.setFormula"}) =>
       /\ lastOp.result
       /\ UndoneOp.address \notin DOMAIN core.cells
  /\ (/\ lastOp.op = "Sheet.redo"
      /\ lastOp.after = "Sheet.undo"
      /\ prev.historyIndex + 2 \in 1..Len(prev.history)
      /\ RedoneOp.type \in {"setCell", "setFormula"}) =>
       /\ lastOp.result
       /\ RedoneOp.address \in DOMAIN core.cells
       /\ IF RedoneOp.type = "setCell"
          THEN /\ core.cells[RedoneOp.address].kind = "scalar"
               /\ core.cells[RedoneOp.address].value = RedoneOp.value
          ELSE /\ core.cells[RedoneOp.address].kind = "formula"
               /\ core.cells[RedoneOp.address].ast = RedoneOp.formula



\* ----------------------------------------------------------------- C34
\* the cell at address k holds a formula that reads the cell at address t
ReadsCell(c, k, t) ==
  /\ k \in DOMAIN c.cells
  /\ c.cells[k].kind = "formula"
  /\ c.cells[k].ast.type = "reference"
  /\ c.cells[k].ast.value = t

\* the graph holds the edge from the cell read to the cell that reads it
HasCoreEdge(g, from, to) ==
  /\ to \in DOMAIN g.dependencies /\ from \in g.dependencies[to]
  /\ from \in DOMAIN g.dependents /\ to \in g.dependents[from]

\* the last call was setFormula(b, text reading a) on a sheet where a held a
\* formula reading b, with its edge in the graph
MutualFormulas(a, b) ==
  /\ a # b
  /\ lastOp.op = "Sheet.setFormula"
  /\ lastOp.address = b
  /\ ReadsCell(core, b, a)
  /\ ReadsCell(prev, a, b)
  /\ HasCoreEdge(prev.deps, b, a)

\* C34: once setFormula(a, formula reading b) has been followed by
\* setFormula(b, formula reading a), the FormulaGraph holds the edge b -> a
\* and the edge a -> b, and detectCycles() returns a non-empty list.
C34_CycleDetected ==
  \A a \in CoreAddresses, b \in CoreAddresses :
    MutualFormulas(a, b) =>
      /\ HasCoreEdge(core.deps, b, a)
      /\ HasCoreEdge(core.deps, a, b)
      /\ detectCycles(core.deps) # <<>>



\* ------------------------------------------ RangeWatchers state machine
\* The RangeWatchers driven directly through its own methods: watchers and
\* formulaRanges are its two Maps, lastOp the method called last (`again`
\* tells that the call before it was the same call with the same arguments),
\* prev.ranges the Maps as that call began.

\* RangeWatchers.watchersOf and RangeWatchers.getRanges
watchersOf(rw, addr) == MapGetOr(rw.watchers, addr)
getRanges(rw, formulaAt) == MapGetOr(rw.formulaRanges, formulaAt)

\* the addresses offered as cells and as formula cells, and the ranges
\* (start and end address) offered to addWatch
WatchAddresses == {<<0, 0>>, <<0, 1>>, <<1, 0>>}
WatchFormulas == {<<1, 0>>, <<1, 1>>}
WatchRanges == {<< <<0, 0>>, <<0, 1>> >>, << <<0, 0>>, <<1, 0>> >>}

WatchBecomes(rw, op) ==
  /\ watchers' = rw.watchers
  /\ formulaRanges' = rw.formulaRanges
  /\ lastOp' = op
  /\ prev' = Cur
  /\ nOps' = nOps + 1
  /\ UNCHANGED <<rows, cols, cells, outgoing, incoming, core>>

WatchAddWatch ==
  /\ nOps < MaxOps
  /\ \E range \in WatchRanges, formulaAt \in WatchFormulas :
       WatchBecomes(addWatch(Cur.ranges, range, formulaAt),
                    [op |-> "addWatch", range |-> range, formulaAt |-> formulaAt,
                     again |-> /\ lastOp.op = "addWatch"
                               /\ lastOp.range = range
                               /\ lastOp.formulaAt = formulaAt])

WatchRegisterCell ==
  /\ nOps < MaxOps
  /\ \E cellAddr \in WatchAddresses, formulaAt \in WatchFormulas :
       WatchBecomes(registerCell(Cur.ranges, cellAddr, formulaAt),
                    [op |-> "registerCell", cellAddr |-> cellAddr, formulaAt |-> formulaAt,
                     again |-> /\ lastOp.op = "registerCell"
                               /\ lastOp.cellAddr = cellAddr
                               /\ lastOp.formulaAt = formulaAt])

WatchRemoveWatches ==
  /\ nOps < MaxOps
  /\ \E formulaAt \in WatchFormulas :
       WatchBecomes(removeWatches(Cur.ranges, formulaAt),
                    [op |-> "removeWatches", formulaAt |-> formulaAt, again |-> FALSE])

WatchNext == WatchAddWatch \/ WatchRegisterCell \/ WatchRemoveWatches

WatchSpec == Init /\ [][WatchNext]_vars

\* ----------------------------------------------------------------- C35
\* C35: when addWatch(range, formulaKey) or registerCell(cellKey, formulaKey)
\* has just been performed a second time with the same arguments, watchersOf
\* of every address and getRanges of every formula return what they returned
\* after the first time.
C35_RegistrationIdempotent ==
  (lastOp.op \in {"addWatch", "registerCell"} /\ lastOp.again) =>
    /\ \A addr \in WatchAddresses :
         watchersOf(Cur.ranges, addr) = watchersOf(prev.ranges, addr)
    /\ \A formulaAt \in WatchFormulas :
         getRanges(Cur.ranges, formulaAt) = getRanges(prev.ranges, formulaAt)



\* ----------------------------------------------------------------- C36
\* AxisIndex.totalIds: the number of identifiers held by all the segments
totalIds(ax) ==
  LET RECURSIVE Sum(_)
      Sum(i) == IF i > Len(ax.segments) THEN 0 ELSE Len(ax.segments[i].ids) + Sum(i + 1)
  IN Sum(1)

\* the segments tile the positions from 1 on without a gap or an overlap
SegmentsTile(ax) ==
  /\ Len(ax.segments) > 0 => ax.segments[1].startPos = 1
  /\ \A i \in 1..(Len(ax.segments) - 1) :
       /\ ax.segments[i].startPos < ax.segments[i + 1].startPos
       /\ ax.segments[i + 1].startPos = SegEnd(ax.segments[i]) + 1

\* C36: after any sequence of AxisIndex.insert and AxisIndex.remove calls the
\* segments of an axis are in increasing startPos order, the first starts at
\* position 1, each starts where the one before it ends, none overlap, and
\* maxPos() equals totalIds().
C36_SegmentInvariant ==
  /\ SegmentsTile(rows) /\ maxPos(rows) = totalIds(rows)
  /\ SegmentsTile(cols) /\ maxPos(cols) = totalIds(cols)



\* ----------------------------------------------------------------- C37
\* every address the AST of a formula cell of sheet sh resolves to has its
\* edge to that cell, cells cached as #CYCLE! left aside
EdgesComplete(sh) ==
  \A b \in FormulaKeys(sh) :
    CellGet(sh.cells, b).cached # CycleError =>
      \A a \in Range(collectDependencies(sh, CellGet(sh.cells, b).ast)) :
        <<a, b>> \in Edges(sh.deps)

\* C37: after every public Table operation, for every formula cell b whose
\* cached value is not #CYCLE! and every address a its AST currently resolves
\* to (the Ref target, or each address of the Sum rectangle), the edge a -> b
\* is in the DepGraph.
C37_EdgeCompleteness == EdgesComplete(Cur)



\* ----------------------------------------------------------------- C38
\* C38: in every state reached through the Table's public operations the
\* DepGraph is acyclic: no node reaches itself along one or more edges (a
\* self-loop included).
C38_Acyclic ==
  \A e \in Edges(Cur.deps) : ~PathExists(Cur.deps, e[2], e[1])



\* ----------------------------------------------------------------- C39
\* C39: in every state reached through addEdge, replaceAllInbound and removeAll
\* the two adjacency maps mirror each other: for all keys a and b, b is in
\* outgoing[a] if and only if a is in incoming[b] (a = b included).
C39_AdjacencyMirror ==
  \A a \in GraphNodes, b \in GraphNodes :
    (b \in Range(getDependents(Cur.deps, a))) <=> (a \in Range(getDependencies(Cur.deps, b)))

\* removeAll has just cut a node that had a self-edge, a producer and a
\* consumer, and edges between other nodes are left
C39_Witness ==
  /\ lastOp.op = "removeAll"
  /\ <<lastOp.of, lastOp.of>> \in Edges(prev.deps)
  /\ \E p \in GraphNodes \ {lastOp.of} : <<p, lastOp.of>> \in Edges(prev.deps)
  /\ \E c \in GraphNodes \ {lastOp.of} : <<lastOp.of, c>> \in Edges(prev.deps)
  /\ Edges(Cur.deps) # {}



\* ----------------------------------------------------------------- C40
\* the formula keys the RangeWatchers of sheet sh hold: the keys of
\* formulaRanges and the members of the watchers sets
WatchedFormulas(sh) ==
  DOMAIN sh.ranges.formulaRanges
    \cup UNION {Range(sh.ranges.watchers[k]) : k \in DOMAIN sh.ranges.watchers}

\* the cell at key f of sheet sh holds a Sum formula
HoldsSum(sh, f) == IsFormulaAt(sh, f) /\ CellGet(sh.cells, f).ast.t = "Sum"

\* C40: after any sequence of Table operations, every formula key that appears
\* in formulaRanges or in a watchers set names a cell that currently holds a
\* Sum formula.
C40_WatchesOnlyLiveSums ==
  \A f \in WatchedFormulas(Cur) : HoldsSum(Cur, f)

=============================================================================
